---- MODULE Spec2Model ----
(***************************************************************************)
(* RunShellCommand (quickrelease/command.py): one child process, the two   *)
(* pipe readers (_EnqueueOutput), the output monitor (_OutputQueueReader)  *)
(* and the thread that calls Run().                                        *)
(***************************************************************************)
EXTENDS Integers, Sequences, FiniteSets, TLC

\* ------------------------------------------------------------- constants
PIPE_STDOUT == 1
PIPE_STDERR == 2
Streams == {PIPE_STDOUT, PIPE_STDERR}

\* ---------------------------------------------------------------- bounds
MaxLines == 2      \* lines the child may write to stdout
MaxTimeout == 1    \* largest integer timeout a command is built with
InMemLines == 1    \* RUN_SHELL_COMMAND_IN_MEM_LINES

\* Lines the child may write to stderr.
MaxErrLines == MaxLines - 1
\* Most lines the child may write to stream s.
MaxWrite(s) == IF s = PIPE_STDOUT THEN MaxLines ELSE MaxErrLines

\* An OS pipe holds fewer lines than the child may write to stdout: the
\* child blocks on a full pipe until the reader takes a line.
PipeCap == MaxLines - 1
\* Clock ticks that may pass while Run() waits: enough for every timeout.
MaxTime == MaxTimeout
\* Reads of one output property by the caller that are counted.
MaxQueries == 2
\* Calls of Run() on one object after the first.
MaxReruns == 1
\* Most stderr lines of a child whose failure is explained.
MaxStderrShown == 6
\* Most lines of an input stream.
MaxInput == 2
\* Most active partners, and the steps a process declares.
MaxPartners == 2
MaxProcSteps == 3
\* Lines the stdin pipe holds before a write blocks.
StdinCap == MaxInput - 1

\* Python's None; an optional value v is <<v>>.
None == <<>>
Some(v) == <<v>>

\* Exit statuses a child chooses by itself, and the one a SIGKILL leaves.
ExitCodes == {0, 7}
KillRC == 0 - 9

\* errno values Popen may fail with.
SpawnErrnos == {"ENOENT", "EACCES"}

\* The text of the k-th line the child writes to stream s.  stdout lines end
\* in "\n", stderr lines in "\r\n" (both kinds occur on MSYS).
LineText(s, k) ==
    IF s = PIPE_STDOUT THEN <<"o", ToString(k), "\n">>
                       ELSE <<"e", ToString(k), "\r", "\n">>

\* re.sub('\r?\n?$', '', x)
REMOVE_LINE_ENDING(x) ==
    LET a == IF Len(x) > 0 /\ x[Len(x)] = "\n"
             THEN SubSeq(x, 1, Len(x) - 1) ELSE x
    IN  IF Len(a) > 0 /\ a[Len(a)] = "\r"
        THEN SubSeq(a, 1, Len(a) - 1) ELSE a

\* _OutputLineDesc(outputType, content); content None is the sentinel.
OutputLineDesc(outputType, content) == [type |-> outputType, content |-> content]

\* _LogHandleDesc(handle, outputType)
LogHandleDesc(handle, outputType) == [handle |-> handle, type |-> outputType]

\* CPython 2 ordering of two optional numbers: None sorts below every number.
PyGE(a, b) ==
    IF a = None THEN b = None
    ELSE IF b = None THEN TRUE
    ELSE a[1] >= b[1]

\* Truth value of an optional integer (None and 0 are false).
PyTruth(x) == x # None /\ x[1] # 0

\* Python's truth of a bool or an int.
Truthy(x) == x.n # 0

RECURSIVE SeqMap(_, _)
\* list(f(x) for x in s) for the projections the module uses
SeqMap(kind, s) ==
    IF s = <<>> THEN <<>>
    ELSE <<(IF kind = "strip" THEN REMOVE_LINE_ENDING(Head(s).content)
            ELSE IF kind = "group" THEN Head(s).group
            ELSE Head(s).content)>> \o SeqMap(kind, Tail(s))

RECURSIVE Concat(_)
\* ''.join(parts)
Concat(parts) == IF parts = <<>> THEN <<>> ELSE Head(parts) \o Concat(Tail(parts))

\* ------------------------------------- values given to RunShellCommand()
\* A Python value: its type name, its text (str), its number (int, bool)
\* and its items (list, tuple).  Text is a sequence of pieces, a ','
\* always a piece of its own.
PyVal(t, s, n, items) == [t |-> t, s |-> s, n |-> n, items |-> items]
PyStr(text) == PyVal("str", text, 0, <<>>)
PyInt(n) == PyVal("int", <<>>, n, <<>>)
PyBool(b) == PyVal("bool", <<>>, IF b THEN 1 ELSE 0, <<>>)
PyList(items) == PyVal("list", <<>>, 0, items)
PyTuple(items) == PyVal("tuple", <<>>, 0, items)
PyDict == PyVal("dict", <<>>, 0, <<>>)
PyNone == PyVal("NoneType", <<>>, 0, <<>>)
\* An open readable stream holding the given lines.
PyFile(lines) == PyVal("file", <<>>, 0, lines)
\* A keyword that the call does not pass.
Absent == PyVal("absent", <<>>, 0, <<>>)

\* str(x) of a str or an int
str(x) == IF x.t = "str" THEN x.s ELSE <<ToString(x.n)>>

\* sep.join(parts)
RECURSIVE join(_, _)
join(sep, parts) ==
    IF parts = <<>> THEN <<>>
    ELSE IF Len(parts) = 1 THEN Head(parts)
    ELSE Head(parts) \o <<sep>> \o join(sep, Tail(parts))

\* sep in text
Contains(sep, text) == \E i \in 1..Len(text) : text[i] = sep

DEFAULT__STR__SEPARATOR == ","

\* _CheckRunShellCommandArg(argType): FALSE where it raises TypeError.
CheckRunShellCommandArg(argType) ==
    argType \in {"str", "unicode", "int", "float", "list", "long"}

\* One pass of the loop over self._command: Some(commandPart), or None
\* where the body raises TypeError (an unsupported type, or `',' in None`
\* after an empty sub-list).  A sub-list leaves its last item.
CommandPart(elem) ==
    IF ~CheckRunShellCommandArg(elem.t) THEN None
    ELSE IF elem.t = "list"
    THEN IF \E i \in 1..Len(elem.items) :
               ~CheckRunShellCommandArg(elem.items[i].t)
         THEN None
         ELSE IF elem.items = <<>> THEN None
         ELSE Some(str(elem.items[Len(elem.items)]))
    ELSE Some(str(elem))

\* self._execArray for a command every element of which passes.
RECURSIVE ExecArrayOf(_)
ExecArrayOf(command) ==
    IF command = <<>> THEN <<>>
    ELSE <<CommandPart(Head(command))[1]>> \o ExecArrayOf(Tail(command))

\* Integers a timeout string may spell.
IntLiterals == (0 - MaxTimeout)..MaxTimeout

\* int(x): the exception it raises ("none" if it returns) and its value.
int(x) ==
    IF x.t \in {"int", "bool"} THEN [ex |-> "none", n |-> x.n]
    ELSE IF x.t = "str"
    THEN IF \E n \in IntLiterals : x.s = <<ToString(n)>>
         THEN [ex |-> "none",
               n |-> CHOOSE n \in IntLiterals : x.s = <<ToString(n)>>]
         ELSE [ex |-> "ValueError", n |-> 0]
    ELSE [ex |-> "TypeError", n |-> 0]

\* The file system the constructor looks at: the directories that exist
\* (the current directory among them) and the input files that exist.
Cwd == <<"/cwd">>
ExistingDirs == {Cwd, <<"/tmp">>}
ExistingFiles == {}
isdir(path) == path \in ExistingDirs

\* ConfigSpec.GetConstant('RUN_SHELL_COMMAND_DEFAULT_TIMEOUT'), in seconds,
\* with a RUN_SHELL_COMMAND_TIMEOUT_FACTOR of one.
DEFAULT_TIMEOUT == 60 * 5

\* The keywords of RUN_SHELL_COMMAND_DEFAULT_ARGS a call here may pass.
RUN_SHELL_COMMAND_DEFAULT_ARGS ==
    [autoRun |-> PyBool(TRUE), command |-> PyTuple(<<>>),
     timeout |-> PyInt(DEFAULT_TIMEOUT), raiseErrors |-> PyBool(TRUE),
     workdir |-> PyNone, input |-> PyNone,
     printOutput |-> PyNone, verbose |-> PyBool(FALSE)]

\* argValue for keyword arg of the call c: the default unless passed.
ArgValue(c, arg) ==
    IF c.args # <<>> /\ arg = "command" THEN PyTuple(c.args)
    ELSE IF c.kwargs[arg] # Absent THEN c.kwargs[arg]
    ELSE RUN_SHELL_COMMAND_DEFAULT_ARGS[arg]

\* self._workdir after `if self._workdir is None: os.getcwd()`.
WorkdirOf(c) ==
    IF ArgValue(c, "workdir").t = "NoneType" THEN Cwd
    ELSE ArgValue(c, "workdir").s

\* A constructor that never looks at the working directory.
ConstructorRaises_NoWorkdirCheck(c) ==
    LET command == ArgValue(c, "command")
        input == ArgValue(c, "input")
        timeoutArg == ArgValue(c, "timeout")
    IN  IF c.args # <<>> /\ \E arg \in DOMAIN c.kwargs : c.kwargs[arg] # Absent
        THEN "ValueError"
        ELSE IF command.t \notin {"list", "tuple"} THEN "ValueError"
        ELSE IF Len(command.items) <= 0 THEN "ValueError"
        ELSE IF input.t = "str" /\ input.s \notin ExistingFiles
        THEN "ValueError"
        ELSE IF \E i \in 1..Len(command.items) :
                  CommandPart(command.items[i]) = None
        THEN "ValueError"
        ELSE IF timeoutArg.t # "NoneType" /\ int(timeoutArg).ex # "none"
        THEN int(timeoutArg).ex
        ELSE "none"

\* The exception __init__ raises for the call c before it reaches
\* `if self._autoRun`, in the order of its checks; "none" if it raises
\* nothing.  Only ValueError from int() is caught and raised again.
ConstructorRaises(c) ==
    LET command == ArgValue(c, "command")
        input == ArgValue(c, "input")
        timeoutArg == ArgValue(c, "timeout")
    IN  IF c.args # <<>> /\ \E arg \in DOMAIN c.kwargs : c.kwargs[arg] # Absent
        THEN "ValueError"
        ELSE IF command.t \notin {"list", "tuple"} THEN "ValueError"
        ELSE IF Len(command.items) <= 0 THEN "ValueError"
        ELSE IF input.t = "str" /\ input.s \notin ExistingFiles
        THEN "ValueError"
        ELSE IF \E i \in 1..Len(command.items) :
                  CommandPart(command.items[i]) = None
        THEN "ValueError"
        ELSE IF ~isdir(WorkdirOf(c)) THEN "ReleaseFrameworkError"
        ELSE IF timeoutArg.t # "NoneType" /\ int(timeoutArg).ex # "none"
        THEN int(timeoutArg).ex
        ELSE "none"

VARIABLES
    \* ---- the RunShellCommand object
    timeout, raiseErrors, logfile, errorLogfile, combineOutput,
    processWasKilled, processTimedOut, startTime, endTime, returncode,
    outputMonitor,
    \* ---- module state
    gUsingKillableProcess,
    \* ---- locals of Run()
    pcRun, commandLaunched, logDescs, procEndTime, pendingEx, outcome,
    waitBounded, waitStart, interrupted,
    \* ---- the child process and its pipes
    childState, childRc, procReturncode, wrote, pipe, pipeClosed,
    \* ---- the reader threads
    pcReader, readLog,
    \* ---- the shared Queue
    queue, unfinished,
    \* ---- the _OutputQueueReader thread
    pcMonitor, streamDeathCount, collectedOutput, bigOutputFileHandle, bigFile,
    \* ---- log files and the clock
    handleState, logData, now,
    \* ---- options read when the monitor is created
    maxInMemLines, cmdStoreBigOutput,
    \* ---- the lists a monitor that never spills would retain
    memOutput,
    \* ---- what the caller has read from the output properties so far
    queried,
    \* ---- the constructor call and the attributes it leaves on the object
    call, execArray, autoRun, strOpts,
    _RunShellCommand__str__separator,
    \* ---- children this object has spawned
    spawnCount,
    \* ---- calls of Run() after the first, and the result the first left
    reruns, firstResult,
    \* ---- the text of the RunShellCommandError Run() raised
    explanation,
    \* ---- the child's stdin pipe and the stdin writer thread
    hasStdin,         \* Popen was given stdin=PIPE
    stdinPipe,        \* lines written to process.stdin and not yet read
    stdinPos,         \* lines of self._stdin the writer has written
    stdinCloses,      \* times the writer has closed process.stdin
    pcWriter,         \* "none" (stdinWriter is None), "loop", "done", "error"
    childIn,          \* lines the child has read from its stdin
    \* ---- a Process, its steps and one call of Process.Run
    steps,            \* the declared step classes: name, kind, halt flag
    failing,          \* the step method calls that raise ReleaseFrameworkError
    _ignoreErrors, _executeSteps, _verifySteps, _everHadErrors,
    startingStepName, stepsToRun,   \* the arguments of Run
    pcProcess,        \* "idle", "perform", "done"
    stepNdx, endNdx,  \* the step being performed and the end of the slice
    phaseNdx,         \* the phase of _PerformStep being run
    partnerNdx,       \* the partner of the loop of _RunPartnerStepMethod
    errors,           \* the errors that loop has collected
    calls,            \* the step methods called so far, in order
    printed,          \* the errors PrintReleaseFrameworkError was given
    raised,           \* the exception that left Run, None if none
    \* ---- sys.stdout of the interpreter
    sysStdout,        \* "ok", or the errno a write to it fails with
    console           \* the lines printed on it

cfgVars == <<timeout, raiseErrors, logfile, errorLogfile, combineOutput,
             gUsingKillableProcess>>
objVars == <<processWasKilled, processTimedOut, startTime, endTime, returncode,
             outputMonitor>>
runVars == <<pcRun, commandLaunched, logDescs, procEndTime, pendingEx, outcome,
             waitBounded, waitStart, interrupted>>
childVars == <<childState, childRc, procReturncode, wrote, pipe>>
readerVars == <<pcReader, readLog, pipeClosed>>
queueVars == <<queue, unfinished>>
monitorVars == <<pcMonitor, streamDeathCount, collectedOutput,
                 bigOutputFileHandle, bigFile>>
logVars == <<handleState, logData>>

optVars == <<maxInMemLines, cmdStoreBigOutput>>
ctorVars == <<call, execArray, autoRun, strOpts,
              _RunShellCommand__str__separator>>
rerunVars == <<reruns, firstResult>>
stdinVars == <<hasStdin, stdinPipe, stdinPos, stdinCloses, pcWriter, childIn>>
procVars == <<steps, failing, _ignoreErrors, _executeSteps, _verifySteps,
              _everHadErrors, startingStepName, stepsToRun, pcProcess, stepNdx,
              endNdx, phaseNdx, partnerNdx, errors, calls, printed, raised>>
consoleVars == <<sysStdout, console>>
extVars == <<optVars, memOutput, queried, ctorVars, spawnCount, rerunVars,
            explanation, stdinVars, procVars, consoleVars>>

vars == <<cfgVars, objVars, runVars, childVars, readerVars, queueVars,
          monitorVars, logVars, now, extVars>>

\* self._input as __init__ set it from the call.
_input == ArgValue(call, "input")

\* self._stdin: the stream given as input (a path is opened by __init__,
\* which raises if it cannot), None without input.
_stdin == IF _input = PyNone THEN None ELSE Some(_input)

\* self._printOutput after `if self._printOutput is None: self._printOutput
\* = self._verbose`.
_printOutput ==
    IF ArgValue(call, "printOutput") = PyNone THEN ArgValue(call, "verbose")
    ELSE ArgValue(call, "printOutput")

\* The lines readline() returns from self._stdin, in order.
InputLines ==
    IF _input.t = "file" THEN [i \in 1..Len(_input.items) |-> _input.items[i].s]
                         ELSE <<>>

Handles == {"logfile", "errorLogfile"}

\* The output properties of RunShellCommand a caller reads.
QueryKeys == {"stdout", "stderr", "rawstdout"}

\* No Process object is in use.
NoProcess ==
    /\ steps = <<>>
    /\ failing = {}
    /\ _ignoreErrors = FALSE
    /\ _executeSteps = TRUE
    /\ _verifySteps = TRUE
    /\ _everHadErrors = FALSE
    /\ startingStepName = None
    /\ stepsToRun = None
    /\ pcProcess = "idle"
    /\ stepNdx = 0
    /\ endNdx = 0
    /\ phaseNdx = 0
    /\ partnerNdx = 0
    /\ errors = <<>>
    /\ calls = <<>>
    /\ printed = <<>>
    /\ raised = None

\* The fields __init__ sets before any Run() (command.py 412-422) and the
\* state of a Run() that has not begun: no child, no thread, no queue.
\* memOutput is what _collectedOutput holds when nothing is ever flushed
\* (storeBigOutput false in _OutputQueueReader).
Unlaunched ==
    /\ processWasKilled = FALSE
    /\ processTimedOut = FALSE
    /\ startTime = None
    /\ endTime = None
    /\ returncode = None
    /\ outputMonitor = FALSE
    /\ commandLaunched = FALSE
    /\ logDescs = <<>>
    /\ procEndTime = None
    /\ pendingEx = "none"
    /\ outcome = "none"
    /\ waitBounded = FALSE
    /\ waitStart = 0
    /\ interrupted = FALSE
    /\ childState = "none"
    /\ childRc = None
    /\ procReturncode = None
    /\ wrote = [s \in Streams |-> 0]
    /\ pipe = [s \in Streams |-> <<>>]
    /\ pipeClosed = [s \in Streams |-> FALSE]
    /\ pcReader = [s \in Streams |-> "unstarted"]
    /\ readLog = [s \in Streams |-> <<>>]
    /\ queue = <<>>
    /\ unfinished = 0
    /\ pcMonitor = "unstarted"
    /\ streamDeathCount = 0
    /\ collectedOutput = [s \in Streams |-> <<>>]
    /\ bigOutputFileHandle = "none"
    /\ bigFile = <<>>
    /\ handleState = [h \in Handles |-> "unopened"]
    /\ logData = [h \in Handles |-> <<>>]
    /\ now = 0
    /\ memOutput = [s \in Streams |-> <<>>]
    /\ queried = [k \in QueryKeys |-> [n |-> 0, value |-> None]]
    /\ spawnCount = 0
    /\ reruns = 0
    /\ firstResult = None
    /\ explanation = None
    /\ hasStdin = FALSE
    /\ stdinPipe = <<>>
    /\ stdinPos = 0
    /\ stdinCloses = 0
    /\ pcWriter = "none"
    /\ childIn = <<>>
    /\ sysStdout = "ok"
    /\ console = <<>>
    /\ NoProcess

\* Argument lists a command is built from.
CmdPlain == <<PyStr(<<"ls">>), PyStr(<<"-l">>)>>
CmdComma == <<PyStr(<<"echo">>), PyStr(<<"a", ",", "b">>)>>
CmdMixedTypes ==
    <<PyStr(<<"nice">>), PyInt(1), PyList(<<PyStr(<<"ls">>), PyStr(<<"-a">>)>>)>>
CmdEmptySubList == <<PyStr(<<"ls">>), PyList(<<>>)>>
CmdBadElem == <<PyStr(<<"ls">>), PyDict>>
ArgvChoices == {CmdPlain, CmdComma, CmdMixedTypes, CmdEmptySubList, CmdBadElem}

\* No keyword passed.
NoKwargs ==
    [command |-> Absent, input |-> Absent, workdir |-> Absent,
     timeout |-> Absent, autoRun |-> Absent, raiseErrors |-> Absent,
     printOutput |-> Absent, verbose |-> Absent]

\* RunShellCommand(command=[...], timeout=t, raiseErrors=r, autoRun=False)
CallFor(t, r) ==
    [args |-> <<>>,
     kwargs |-> [NoKwargs EXCEPT
                   !.command = PyList(CmdPlain),
                   !.timeout = IF t = None THEN PyNone ELSE PyInt(t[1]),
                   !.raiseErrors = PyBool(r),
                   !.autoRun = PyBool(FALSE)]]

\* The attributes __init__ leaves on an object built by CallFor.
Built ==
    /\ call = CallFor(timeout, raiseErrors)
    /\ execArray = ExecArrayOf(CmdPlain)
    /\ autoRun = FALSE
    /\ strOpts = None
    /\ _RunShellCommand__str__separator = None

\* RunShellCommand.__init__ with autoRun=False, before Run() is called:
\* timeout is None or an integer (here 1..MaxTimeout seconds), printOutput
\* is off and no input is given.  interrupted records that a
\* KeyboardInterrupt was delivered to the thread in Run().
Init ==
    /\ timeout \in {None} \cup {Some(t) : t \in 1..MaxTimeout}
    /\ raiseErrors \in BOOLEAN
    /\ gUsingKillableProcess \in BOOLEAN
    /\ logfile \in BOOLEAN
    /\ errorLogfile \in BOOLEAN
    /\ combineOutput \in BOOLEAN
    /\ maxInMemLines = InMemLines
    /\ cmdStoreBigOutput = TRUE
    /\ Built
    /\ pcRun = "idle"
    /\ Unlaunched


\* ------------------------------------------------------------ properties
\* The difference taken the other way round.
runningtime_Reversed ==
    IF startTime = None \/ endTime = None THEN None
    ELSE Some(startTime[1] - endTime[1])

\* _GetRunningTime
runningtime ==
    IF startTime = None \/ endTime = None THEN None
    ELSE Some(endTime[1] - startTime[1])

\* _GetBackedByFile
backedByFile == bigOutputFileHandle # "none"

RECURSIVE ReplayBigFile_FirstBatch(_, _, _)
\* A replay loop that stops after the first batch of the wanted type.
ReplayBigFile_FirstBatch(file, outputType, raw) ==
    IF file = <<>> THEN <<>>
    ELSE LET data == Head(file)
         IN  IF data.type = outputType
             THEN (IF raw THEN Concat(SeqMap("raw", data.contents))
                          ELSE SeqMap("strip", data.contents))
             ELSE ReplayBigFile_FirstBatch(Tail(file), outputType, raw)

RECURSIVE ReplayBigFile(_, _, _)
\* The pickle.load loop of GetOutput: every batch of the file, in append
\* order, filtered by type.
ReplayBigFile(file, outputType, raw) ==
    IF file = <<>> THEN <<>>
    ELSE LET data == Head(file)
             part == IF data.type = outputType
                     THEN (IF raw THEN Concat(SeqMap("raw", data.contents))
                                  ELSE SeqMap("strip", data.contents))
                     ELSE <<>>
         IN  part \o ReplayBigFile(Tail(file), outputType, raw)

\* _OutputQueueReader.GetOutput
GetOutput(outputType, raw) ==
    IF bigOutputFileHandle # "none"
    THEN ReplayBigFile(bigFile, outputType, raw)
    ELSE IF raw THEN Concat(SeqMap("raw", collectedOutput[outputType]))
                ELSE SeqMap("strip", collectedOutput[outputType])

\* _GetOutputBackedByFile
outputBackedByFile == IF ~outputMonitor THEN FALSE ELSE backedByFile

\* _GetOutputFromMonitor: None until Run() has created the monitor.
GetOutputFromMonitor(outputType, raw) ==
    IF ~outputMonitor THEN None ELSE GetOutput(outputType, raw)

stdout == GetOutputFromMonitor(PIPE_STDOUT, FALSE)
stderr == GetOutputFromMonitor(PIPE_STDERR, FALSE)
rawstdout == GetOutputFromMonitor(PIPE_STDOUT, TRUE)

\* The memory branch of GetOutput over the lists of a monitor that never
\* writes a spill file.
InMemOutput(outputType, raw) ==
    IF raw THEN Concat(SeqMap("raw", memOutput[outputType]))
           ELSE SeqMap("strip", memOutput[outputType])

\* The value a caller gets from the property named k.
QueryValue(k) ==
    CASE k = "stdout" -> stdout
      [] k = "stderr" -> stderr
      [] k = "rawstdout" -> rawstdout

\* ------------------------------------------------------------- the child
\* The child writes one more line to stream s; it blocks while the pipe is
\* full.
ChildWrite(s) ==
    /\ childState = "running"
    /\ wrote[s] < MaxWrite(s)
    /\ Len(pipe[s]) < PipeCap
    /\ pipe' = [pipe EXCEPT ![s] = Append(@, LineText(s, wrote[s] + 1))]
    /\ wrote' = [wrote EXCEPT ![s] = @ + 1]
    /\ UNCHANGED <<cfgVars, extVars, objVars, runVars, childState, childRc,
                   procReturncode, readerVars, queueVars, monitorVars,
                   logVars, now>>

\* The child exits by itself with status rc.
ChildExit(rc) ==
    /\ childState = "running"
    /\ childState' = "exited"
    /\ childRc' = Some(rc)
    /\ UNCHANGED <<cfgVars, extVars, objVars, runVars, procReturncode, wrote, pipe,
                   readerVars, queueVars, monitorVars, logVars, now>>

\* The child reads one line from its stdin.
ChildReadStdin ==
    /\ childState = "running"
    /\ stdinPipe # <<>>
    /\ childIn' = Append(childIn, Head(stdinPipe))
    /\ stdinPipe' = Tail(stdinPipe)
    /\ UNCHANGED <<cfgVars, optVars, memOutput, queried, ctorVars, spawnCount,
                   rerunVars, explanation, consoleVars, procVars, hasStdin, stdinPos, stdinCloses,
                   pcWriter, objVars, runVars, childVars, readerVars, queueVars,
                   monitorVars, logVars, now>>

\* ---------------------------------------------------- _WriteInput thread
\* Everything but the stdin variables, which only the writer and the child
\* change.
WriterFrame ==
    UNCHANGED <<cfgVars, optVars, memOutput, queried, ctorVars, spawnCount,
                rerunVars, explanation, consoleVars, procVars, hasStdin, childIn, objVars, runVars,
                childVars, readerVars, queueVars, monitorVars, logVars, now>>

\* The loop ending at the line before the last one of the input.
WriteInputClose_DropsLast ==
    /\ pcWriter = "loop"
    /\ stdinPos + 1 >= Len(InputLines)
    /\ stdinCloses' = stdinCloses + 1
    /\ pcWriter' = "done"
    /\ UNCHANGED <<stdinPipe, stdinPos>>
    /\ WriterFrame

\* for line in iter(inputStream.readline, ''): procStdinPipe.write(line);
\* the write blocks while the pipe is full.
WriteInputLine ==
    /\ pcWriter = "loop"
    /\ stdinPos < Len(InputLines)
    /\ childState = "running"
    /\ Len(stdinPipe) < StdinCap
    /\ stdinPipe' = Append(stdinPipe, InputLines[stdinPos + 1])
    /\ stdinPos' = stdinPos + 1
    /\ UNCHANGED <<stdinCloses, pcWriter>>
    /\ WriterFrame

\* procStdinPipe.write(line) when the child has gone: IOError (EPIPE) ends
\* the thread inside the loop.
WriteInputBrokenPipe ==
    /\ pcWriter = "loop"
    /\ stdinPos < Len(InputLines)
    /\ childState = "exited"
    /\ pcWriter' = "error"
    /\ UNCHANGED <<stdinPipe, stdinPos, stdinCloses>>
    /\ WriterFrame

\* readline() returns '': procStdinPipe.close(), and the thread ends.
WriteInputClose ==
    /\ pcWriter = "loop"
    /\ stdinPos = Len(InputLines)
    /\ stdinCloses' = stdinCloses + 1
    /\ pcWriter' = "done"
    /\ UNCHANGED <<stdinPipe, stdinPos>>
    /\ WriterFrame

\* ------------------------------------------------ _EnqueueOutput threads
\* readline() returns a line, which is put on the queue.
ReadLine(s) ==
    /\ pcReader[s] = "readline"
    /\ pipe[s] # <<>>
    /\ pipe' = [pipe EXCEPT ![s] = Tail(@)]
    /\ queue' = Append(queue, OutputLineDesc(s, Head(pipe[s])))
    /\ unfinished' = unfinished + 1
    /\ readLog' = [readLog EXCEPT ![s] = Append(@, Head(pipe[s]))]
    /\ UNCHANGED <<cfgVars, extVars, objVars, runVars, childState, childRc,
                   procReturncode, wrote, pcReader, pipeClosed, monitorVars,
                   logVars, now>>

\* The end of the reader without outputPipe.close().
ReadEOF_NoClose(s) ==
    /\ pcReader[s] = "readline"
    /\ pipe[s] = <<>>
    /\ childState = "exited"
    /\ queue' = Append(queue, OutputLineDesc(s, None))
    /\ unfinished' = unfinished + 1
    /\ pcReader' = [pcReader EXCEPT ![s] = "done"]
    /\ UNCHANGED <<cfgVars, extVars, objVars, runVars, childVars, readLog,
                   pipeClosed, monitorVars, logVars, now>>

\* readline() returns '' (the write end is closed and the pipe is empty):
\* outputPipe.close(), then the sentinel is put on the queue and the thread
\* ends.
ReadEOF(s) ==
    /\ pcReader[s] = "readline"
    /\ pipe[s] = <<>>
    /\ childState = "exited"
    /\ pipeClosed' = [pipeClosed EXCEPT ![s] = TRUE]
    /\ queue' = Append(queue, OutputLineDesc(s, None))
    /\ unfinished' = unfinished + 1
    /\ pcReader' = [pcReader EXCEPT ![s] = "done"]
    /\ UNCHANGED <<cfgVars, extVars, objVars, runVars, childVars, readLog,
                   monitorVars, logVars, now>>

\* outputPipe.readline() raises (an IOError of the read): nothing catches
\* it in _EnqueueOutput, so the thread ends there, before
\* outputPipe.close() and before the sentinel is put.
ReadError(s) ==
    /\ pcReader[s] = "readline"
    /\ pcReader' = [pcReader EXCEPT ![s] = "error"]
    /\ UNCHANGED <<cfgVars, extVars, objVars, runVars, childVars, readLog,
                   pipeClosed, queueVars, monitorVars, logVars, now>>

\* ------------------------------------------- the _OutputQueueReader thread
\* _monitoredStreams and _storeBigOutput: Run() passes neither, so the
\* monitor keeps the defaults of its constructor.
monitoredStreams == 2
storeBigOutput == TRUE

RECURSIVE LogWrite(_, _, _)
\* for h in self._logHandleDescriptors: if h.type == lineDesc.type: write
LogWrite(data, descs, lineDesc) ==
    IF descs = <<>> THEN data
    ELSE LET h == Head(descs)
             d == IF h.type = lineDesc.type
                  THEN [data EXCEPT ![h.handle] = Append(@, lineDesc.content)]
                  ELSE data
         IN  LogWrite(d, Tail(descs), lineDesc)

\* _FlushBigOutputToFile without `self._collectedOutput[outputType] = []`.
FlushBigOutputToFile_KeepsList(outputType, collected) ==
    /\ bigOutputFileHandle' = "open"
    /\ bigFile' = Append(bigFile, [type |-> outputType,
                                   contents |-> collected[outputType]])
    /\ collectedOutput' = collected

\* _FlushBigOutputToFile(outputType), applied to the retained lists
\* `collected`: the next values of the handle, the file and the lists.
FlushBigOutputToFile(outputType, collected) ==
    IF storeBigOutput
    THEN /\ bigOutputFileHandle' = "open"
         /\ bigFile' = Append(bigFile, [type |-> outputType,
                                        contents |-> collected[outputType]])
         /\ collectedOutput' = [collected EXCEPT ![outputType] = <<>>]
    ELSE /\ collectedOutput' = collected
         /\ UNCHANGED <<bigOutputFileHandle, bigFile>>

\* The threshold test letting the list grow one record further.
OverThreshold_OneMore(collected, outputType) ==
    Len(collected[outputType]) > maxInMemLines + 1

\* if len(self._collectedOutput[lineDesc.type]) > self._maxInMemLines
OverThreshold(collected, outputType) ==
    Len(collected[outputType]) > maxInMemLines

\* The break test satisfied by the first sentinel.
AllStreamsDead_FirstSentinel(count) == count >= 1

\* The break test counting one stream too many.
AllStreamsDead_OffByOne(count) == count = monitoredStreams + 1

\* if streamDeathCount == self._monitoredStreams: break
AllStreamsDead(count) == count = monitoredStreams

\* The iteration on a sentinel without its self._queue.task_done().
MonitorSentinel_NoTaskDone ==
    /\ pcMonitor = "loop"
    /\ queue # <<>>
    /\ Head(queue).content = None
    /\ queue' = Tail(queue)
    /\ FlushBigOutputToFile(Head(queue).type, collectedOutput)
    /\ streamDeathCount' = streamDeathCount + 1
    /\ pcMonitor' = IF AllStreamsDead(streamDeathCount + 1) THEN "flush"
                                                            ELSE "loop"
    /\ UNCHANGED <<cfgVars, extVars, objVars, runVars, childVars, readerVars, logVars,
                   unfinished, now>>

\* The iteration on a sentinel counting it twice.
MonitorSentinel_CountsTwice ==
    /\ pcMonitor = "loop"
    /\ queue # <<>>
    /\ Head(queue).content = None
    /\ queue' = Tail(queue)
    /\ FlushBigOutputToFile(Head(queue).type, collectedOutput)
    /\ unfinished' = unfinished - 1
    /\ streamDeathCount' = streamDeathCount + 2
    /\ pcMonitor' = IF AllStreamsDead(streamDeathCount + 2) THEN "flush"
                                                            ELSE "loop"
    /\ UNCHANGED <<cfgVars, extVars, objVars, runVars, childVars, readerVars, logVars,
                   now>>

\* The iteration on a sentinel without its _FlushBigOutputToFile call.
MonitorSentinel_NoFlush ==
    /\ pcMonitor = "loop"
    /\ queue # <<>>
    /\ Head(queue).content = None
    /\ queue' = Tail(queue)
    /\ unfinished' = unfinished - 1
    /\ streamDeathCount' = streamDeathCount + 1
    /\ pcMonitor' = IF AllStreamsDead(streamDeathCount + 1) THEN "flush"
                                                            ELSE "loop"
    /\ UNCHANGED <<cfgVars, extVars, objVars, runVars, childVars, readerVars, logVars,
                   collectedOutput, bigOutputFileHandle, bigFile, now>>

\* One iteration of the loop of run() on a sentinel.
MonitorSentinel ==
    /\ pcMonitor = "loop"
    /\ queue # <<>>
    /\ Head(queue).content = None
    /\ queue' = Tail(queue)
    /\ FlushBigOutputToFile(Head(queue).type, collectedOutput)
    /\ unfinished' = unfinished - 1
    /\ streamDeathCount' = streamDeathCount + 1
    /\ pcMonitor' = IF AllStreamsDead(streamDeathCount + 1) THEN "flush"
                                                            ELSE "loop"
    /\ UNCHANGED <<cfgVars, extVars, objVars, runVars, childVars, readerVars, logVars,
                   now>>

\* errno.EPIPE, the one errno of a console write run() does not re-raise.
EPIPE == "EPIPE"

\* A console that prints nothing and reports no error.
PrintLine_Mute(lineDesc) == console

\* if self.printOutput: print REMOVE_LINE_ENDING(lineDesc.content), with
\* the IOError of a broken pipe caught and dropped: the console afterwards.
PrintLine(lineDesc) ==
    IF Truthy(_printOutput) /\ sysStdout = "ok"
    THEN Append(console, REMOVE_LINE_ENDING(lineDesc.content))
    ELSE console

\* The handles of the descriptors h.handle.write is called on for lineDesc.
MatchingHandles(lineDesc) ==
    {logDescs[i].handle : i \in {j \in 1..Len(logDescs) :
                                    logDescs[j].type = lineDesc.type}}

\* A finally clause that leaves the handle as it is.
CloseBigOutput_LeftOpen == bigOutputFileHandle

\* finally: if self.backedByFile: self._bigOutputFileHandle.close()
CloseBigOutput == IF backedByFile THEN "closed" ELSE bigOutputFileHandle

\* The iteration on a record dropped when the console is a broken pipe.
MonitorLine_DropOnEPIPE ==
    /\ pcMonitor = "loop"
    /\ queue # <<>>
    /\ Head(queue).content # None
    /\ LET lineDesc == Head(queue)
           broken == Truthy(_printOutput) /\ sysStdout = EPIPE
           collected == [collectedOutput EXCEPT
                           ![lineDesc.type] = IF broken THEN @
                                              ELSE Append(@, lineDesc)]
       IN  /\ queue' = Tail(queue)
           /\ console' = PrintLine(lineDesc)
           /\ logData' = IF broken THEN logData
                         ELSE LogWrite(logData, logDescs, lineDesc)
           /\ IF OverThreshold(collected, lineDesc.type)
              THEN FlushBigOutputToFile(lineDesc.type, collected)
              ELSE /\ collectedOutput' = collected
                   /\ UNCHANGED <<bigOutputFileHandle, bigFile>>
           /\ memOutput' = [memOutput EXCEPT
                               ![lineDesc.type] = IF broken THEN @
                                                  ELSE Append(@, lineDesc)]
           /\ unfinished' = unfinished - 1
    /\ UNCHANGED <<cfgVars, optVars, explanation, sysStdout, stdinVars, procVars,
                   queried, ctorVars, spawnCount, rerunVars, objVars,
                   runVars, childVars, readerVars, pcMonitor,
                   streamDeathCount, handleState, now>>

\* One iteration of the loop of run() on a line of output that raises
\* nothing: the line is printed if printOutput is set (a broken pipe is
\* ignored), written to the logs of its type, retained, flushed to the big
\* output file if the list is over the threshold, and acknowledged.
MonitorLine ==
    /\ pcMonitor = "loop"
    /\ queue # <<>>
    /\ Head(queue).content # None
    /\ LET lineDesc == Head(queue)
           collected == [collectedOutput EXCEPT
                           ![lineDesc.type] = Append(@, lineDesc)]
       IN  /\ queue' = Tail(queue)
           /\ console' = PrintLine(lineDesc)
           /\ logData' = LogWrite(logData, logDescs, lineDesc)
           /\ IF OverThreshold(collected, lineDesc.type)
              THEN FlushBigOutputToFile(lineDesc.type, collected)
              ELSE /\ collectedOutput' = collected
                   /\ UNCHANGED <<bigOutputFileHandle, bigFile>>
           /\ memOutput' = [memOutput EXCEPT
                               ![lineDesc.type] = Append(@, lineDesc)]
           /\ unfinished' = unfinished - 1
    /\ UNCHANGED <<cfgVars, optVars, explanation, sysStdout, stdinVars, procVars,
                   queried, ctorVars, spawnCount, rerunVars, objVars,
                   runVars, childVars, readerVars, pcMonitor,
                   streamDeathCount, handleState, now>>

\* An iteration of the loop of run() on a line of output in which an
\* exception is raised: by the print, when printOutput is set and the write
\* to sys.stdout fails with an errno other than EPIPE, or by
\* h.handle.write on a log of the line's type, after the print.  The
\* record was taken from the queue; nothing is retained and task_done() is
\* not reached.  The finally clause closes the big output file, if any,
\* and the thread ends.
MonitorLineRaises(cause) ==
    /\ pcMonitor = "loop"
    /\ queue # <<>>
    /\ Head(queue).content # None
    /\ LET lineDesc == Head(queue)
       IN  /\ queue' = Tail(queue)
           /\ \/ /\ cause = "console"
                 /\ Truthy(_printOutput)
                 /\ sysStdout = "ok"
                 /\ UNCHANGED console
              \/ /\ cause = "log"
                 /\ MatchingHandles(lineDesc) # {}
                 /\ console' = PrintLine(lineDesc)
    /\ bigOutputFileHandle' = CloseBigOutput
    /\ pcMonitor' = "error"
    /\ UNCHANGED <<cfgVars, optVars, explanation, sysStdout, stdinVars, procVars,
                   memOutput, queried, ctorVars, spawnCount, rerunVars,
                   objVars, runVars, childVars, readerVars, unfinished,
                   streamDeathCount, collectedOutput, bigFile, logVars, now>>

\* The reader of sys.stdout goes away: from now on a write to it fails
\* with EPIPE.  Only the monitor's loop writes to it.
StdoutBreaks ==
    /\ pcMonitor = "loop"
    /\ sysStdout = "ok"
    /\ sysStdout' = EPIPE
    /\ UNCHANGED <<cfgVars, optVars, memOutput, queried, ctorVars, spawnCount,
                   rerunVars, explanation, stdinVars, procVars, console,
                   objVars, runVars, childVars, readerVars, queueVars,
                   monitorVars, logVars, now>>

\* After the loop: the log handles are flushed; finally: the big output
\* file, if any, is closed.  The thread ends.
MonitorFinish ==
    /\ pcMonitor = "flush"
    /\ bigOutputFileHandle' = CloseBigOutput
    /\ pcMonitor' = "done"
    /\ UNCHANGED <<cfgVars, extVars, objVars, runVars, childVars, readerVars,
                   queueVars, streamDeathCount, collectedOutput, bigFile,
                   logVars, now>>

\* ------------------------------------------------------------------ Run()
\* logDescs with the error log opened whether or not output is combined.
BuildLogDescs_ErrAlways ==
    (IF logfile
     THEN <<LogHandleDesc("logfile", PIPE_STDOUT)>>
          \o (IF combineOutput THEN <<LogHandleDesc("logfile", PIPE_STDERR)>>
                               ELSE <<>>)
     ELSE <<>>)
    \o (IF errorLogfile
        THEN <<LogHandleDesc("errorLogfile", PIPE_STDERR)>>
        ELSE <<>>)

\* logDescs as Run() builds it from logfile, combineOutput and errorLogfile.
BuildLogDescs ==
    (IF logfile
     THEN <<LogHandleDesc("logfile", PIPE_STDOUT)>>
          \o (IF combineOutput THEN <<LogHandleDesc("logfile", PIPE_STDERR)>>
                               ELSE <<>>)
     ELSE <<>>)
    \o (IF ~combineOutput /\ errorLogfile
        THEN <<LogHandleDesc("errorLogfile", PIPE_STDERR)>>
        ELSE <<>>)

\* The handles named by a list of descriptors.
DescHandles(descs) == {descs[i].handle : i \in 1..Len(descs)}

\* The wait test without the capability flag.
BoundedWait_NoCapability == timeout # None

\* if self.timeout is not None and gUsingKillableProcess
BoundedWait == timeout # None /\ gUsingKillableProcess

\* The raise test with `self.returncode > 0`.
ShouldRaise_PositiveOnly ==
    raiseErrors /\ returncode # None /\ returncode[1] > 0

\* The raise test also raising for a command flagged as timed out.
ShouldRaise_OnTimedOut ==
    raiseErrors /\ (PyTruth(returncode) \/ processTimedOut)

\* The raise test without raiseErrors.
ShouldRaise_Always == PyTruth(returncode)

\* if self._raiseErrors and self.returncode
ShouldRaise == raiseErrors /\ PyTruth(returncode)

\* if commandLaunched and self.runningtime >= self.timeout
LooksTimedOut == commandLaunched /\ PyGE(runningtime, timeout)

\* A finally block that joins the threads only when no exception is pending.
FinallyBegin_NoJoinOnError(ex) ==
    IF commandLaunched /\ ex = "none"
    THEN /\ procEndTime' = Some(now)
         /\ pcRun' = "joinStderr"
         /\ UNCHANGED outcome
    ELSE /\ outcome' = ex
         /\ pcRun' = "done"
         /\ UNCHANGED procEndTime

\* finally: if commandLaunched: procEndTime = time.time() and the joins
\* follow; otherwise the block does nothing and the exception `ex` that is
\* pending leaves Run().
FinallyBegin(ex) ==
    IF commandLaunched
    THEN /\ procEndTime' = Some(now)
         /\ pcRun' = "joinStderr"
         /\ UNCHANGED outcome
    ELSE /\ outcome' = ex
         /\ pcRun' = "done"
         /\ UNCHANGED procEndTime

\* Run() up to the spawn: the log files are opened.
RunOpenLogs ==
    /\ pcRun = "idle"
    /\ commandLaunched' = FALSE
    /\ logDescs' = BuildLogDescs
    /\ handleState' = [h \in Handles |->
                         IF h \in DescHandles(BuildLogDescs) THEN "open"
                                                             ELSE handleState[h]]
    /\ pcRun' = "popen"
    /\ UNCHANGED <<cfgVars, extVars, objVars, procEndTime, pendingEx, outcome,
                   waitBounded, waitStart, interrupted, childVars, readerVars, queueVars,
                   monitorVars, logData, now>>

\* self._startTime = time.time(); process = Popen(...) succeeds.
RunPopen ==
    /\ pcRun = "popen"
    /\ startTime' = Some(now)
    /\ childState' = "running"
    /\ commandLaunched' = TRUE
    /\ spawnCount' = spawnCount + 1
    /\ hasStdin' = (_input # PyNone)
    /\ pcRun' = "start"
    /\ UNCHANGED <<cfgVars, optVars, explanation, consoleVars, procVars, stdinPipe, stdinPos, stdinCloses,
                   pcWriter, childIn, memOutput, queried, ctorVars, rerunVars,
                   processWasKilled, processTimedOut, endTime,
                   returncode, outputMonitor, logDescs, procEndTime,
                   pendingEx, outcome, waitBounded, waitStart, interrupted, childRc,
                   procReturncode, wrote, pipe, readerVars, queueVars,
                   monitorVars, logVars, now>>

\* Popen raises OSError: except OSError raises ReleaseFrameworkError, with
\* either message.
RunPopenFail(e) ==
    /\ pcRun = "popen"
    /\ startTime' = Some(now)
    /\ pendingEx' = "ReleaseFrameworkError"
    /\ FinallyBegin("ReleaseFrameworkError")
    /\ UNCHANGED <<cfgVars, extVars, processWasKilled, processTimedOut, endTime,
                   returncode, outputMonitor, commandLaunched, logDescs,
                   waitBounded, waitStart, interrupted, childVars, readerVars, queueVars,
                   monitorVars, logVars, now>>

\* The stdin writer, if self._stdin is not None, the two readers and the
\* monitor are created and started; Run() enters process.wait.  self._outputMonitor is a new _OutputQueueReader: empty
\* lists, no spill file, no stream ended.
RunStartThreads ==
    /\ pcRun = "start"
    /\ outputMonitor' = TRUE
    /\ streamDeathCount' = 0
    /\ collectedOutput' = [s \in Streams |-> <<>>]
    /\ bigOutputFileHandle' = "none"
    /\ bigFile' = <<>>
    /\ memOutput' = [s \in Streams |-> <<>>]
    /\ pcReader' = [s \in Streams |-> "readline"]
    /\ pcMonitor' = "loop"
    /\ pcWriter' = IF _stdin # None THEN "loop" ELSE "none"
    /\ waitBounded' = BoundedWait
    /\ waitStart' = now
    /\ pcRun' = "wait"
    /\ UNCHANGED <<cfgVars, optVars, explanation, consoleVars, procVars, hasStdin, stdinPipe, stdinPos,
                   stdinCloses, childIn, queried, ctorVars, spawnCount, rerunVars,
                   processWasKilled, processTimedOut, startTime, endTime,
                   returncode, commandLaunched, logDescs, procEndTime,
                   pendingEx, outcome, interrupted, childVars, readLog,
                   pipeClosed, queueVars, logVars, now>>

\* process.wait returns because the child has exited.
WaitReturn ==
    /\ pcRun = "wait"
    /\ childState = "exited"
    /\ procReturncode' = childRc
    /\ FinallyBegin("none")
    /\ UNCHANGED <<cfgVars, extVars, objVars, commandLaunched, logDescs,
                   pendingEx, waitBounded, waitStart, interrupted, childState,
                   childRc, wrote, pipe, readerVars, queueVars, monitorVars,
                   logVars, now>>

\* killableprocess.Popen.wait(timeout): the timeout has passed with the
\* child still running; the child is killed and wait returns.
WaitTimeout ==
    /\ pcRun = "wait"
    /\ waitBounded
    /\ childState = "running"
    /\ now - waitStart >= timeout[1]
    /\ childState' = "exited"
    /\ childRc' = Some(KillRC)
    /\ procReturncode' = Some(KillRC)
    /\ FinallyBegin("none")
    /\ UNCHANGED <<cfgVars, extVars, objVars, commandLaunched, logDescs,
                   pendingEx, waitBounded, waitStart, interrupted, wrote, pipe,
                   readerVars, queueVars, monitorVars, logVars, now>>

\* The handler without `raise ex`: the interrupt is swallowed.
WaitInterrupt_Swallowed(recorded) ==
    /\ pcRun = "wait"
    /\ childState = "running"
    /\ childState' = "exited"
    /\ childRc' = Some(KillRC)
    /\ procReturncode' = IF recorded THEN Some(KillRC) ELSE None
    /\ processWasKilled' = TRUE
    /\ interrupted' = TRUE
    /\ FinallyBegin("none")
    /\ UNCHANGED <<cfgVars, extVars, processTimedOut, startTime, endTime, returncode,
                   outputMonitor, commandLaunched, logDescs, pendingEx,
                   waitBounded, waitStart, wrote, pipe, readerVars,
                   queueVars, monitorVars, logVars, now>>

\* Whether process.kill() stores a return code on the Popen object:
\* subprocess.Popen.kill only sends the signal; killableprocess may do
\* either.
KillRecords == IF gUsingKillableProcess THEN BOOLEAN ELSE {FALSE}

\* except KeyboardInterrupt: process.kill(); self._processWasKilled = True;
\* raise ex.  Nothing waits on the child again, so process.returncode is
\* set only if kill() itself records it.
WaitInterrupt(recorded) ==
    /\ pcRun = "wait"
    /\ childState = "running"
    /\ childState' = "exited"
    /\ childRc' = Some(KillRC)
    /\ procReturncode' = IF recorded THEN Some(KillRC) ELSE None
    /\ processWasKilled' = TRUE
    /\ interrupted' = TRUE
    /\ pendingEx' = "KeyboardInterrupt"
    /\ FinallyBegin("KeyboardInterrupt")
    /\ UNCHANGED <<cfgVars, extVars, processTimedOut, startTime, endTime, returncode,
                   outputMonitor, commandLaunched, logDescs,
                   waitBounded, waitStart, wrote, pipe, readerVars,
                   queueVars, monitorVars, logVars, now>>

\* Time passes while Run() is in process.wait and the child runs.
Tick ==
    /\ pcRun = "wait"
    /\ childState = "running"
    /\ now < MaxTime
    /\ now' = now + 1
    /\ UNCHANGED <<cfgVars, extVars, objVars, runVars, childVars, readerVars,
                   queueVars, monitorVars, logVars>>

\* stderrReader.join()
JoinStderrReader ==
    /\ pcRun = "joinStderr"
    /\ pcReader[PIPE_STDERR] \in {"done", "error"}
    /\ pcRun' = "joinStdout"
    /\ UNCHANGED <<cfgVars, extVars, objVars, commandLaunched, logDescs, procEndTime,
                   pendingEx, outcome, waitBounded, waitStart, interrupted, childVars,
                   readerVars, queueVars, monitorVars, logVars, now>>

\* stdoutReader.join()
JoinStdoutReader ==
    /\ pcRun = "joinStdout"
    /\ pcReader[PIPE_STDOUT] \in {"done", "error"}
    /\ pcRun' = "joinMonitor"
    /\ UNCHANGED <<cfgVars, extVars, objVars, commandLaunched, logDescs, procEndTime,
                   pendingEx, outcome, waitBounded, waitStart, interrupted, childVars,
                   readerVars, queueVars, monitorVars, logVars, now>>

\* Run() going on without waiting for the monitor to end.
JoinMonitor_NoWait ==
    /\ pcRun = "joinMonitor"
    /\ pcRun' = "joinQueue"
    /\ UNCHANGED <<cfgVars, extVars, objVars, commandLaunched, logDescs, procEndTime,
                   pendingEx, outcome, waitBounded, waitStart, interrupted, childVars,
                   readerVars, queueVars, monitorVars, logVars, now>>

\* self._outputMonitor.join()
JoinMonitor ==
    /\ pcRun = "joinMonitor"
    /\ pcMonitor \in {"done", "error"}
    /\ pcRun' = "joinQueue"
    /\ UNCHANGED <<cfgVars, extVars, objVars, commandLaunched, logDescs, procEndTime,
                   pendingEx, outcome, waitBounded, waitStart, interrupted, childVars,
                   readerVars, queueVars, monitorVars, logVars, now>>

\* outputQueue.join()
JoinQueue ==
    /\ pcRun = "joinQueue"
    /\ unfinished = 0
    /\ pcRun' = IF pcWriter # "none" THEN "joinStdin" ELSE "closeLogs"
    /\ UNCHANGED <<cfgVars, extVars, objVars, commandLaunched, logDescs, procEndTime,
                   pendingEx, outcome, waitBounded, waitStart, interrupted, childVars,
                   readerVars, queueVars, monitorVars, logVars, now>>

\* if stdinWriter is not None: stdinWriter.join()
JoinStdinWriter ==
    /\ pcRun = "joinStdin"
    /\ pcWriter \in {"done", "error"}
    /\ pcRun' = "closeLogs"
    /\ UNCHANGED <<cfgVars, extVars, objVars, commandLaunched, logDescs, procEndTime,
                   pendingEx, outcome, waitBounded, waitStart, interrupted, childVars,
                   readerVars, queueVars, monitorVars, logVars, now>>

\* for h in logDescs: h.handle.close()
CloseLogs ==
    /\ pcRun = "closeLogs"
    /\ handleState' = [h \in Handles |->
                         IF h \in DescHandles(logDescs) THEN "closed"
                                                        ELSE handleState[h]]
    /\ pcRun' = "heuristic"
    /\ UNCHANGED <<cfgVars, extVars, objVars, commandLaunched, logDescs, procEndTime,
                   pendingEx, outcome, waitBounded, waitStart, interrupted, childVars,
                   readerVars, queueVars, monitorVars, logData, now>>

\* The timeout heuristic, then self._endTime and self._returncode are set;
\* a pending exception leaves Run() at the end of the finally block.
FinallyResult ==
    /\ pcRun = "heuristic"
    /\ processWasKilled' = (LooksTimedOut \/ processWasKilled)
    /\ processTimedOut' = (LooksTimedOut \/ processTimedOut)
    /\ endTime' = procEndTime
    /\ returncode' = procReturncode
    /\ IF pendingEx # "none"
       THEN outcome' = pendingEx /\ pcRun' = "done"
       ELSE UNCHANGED outcome /\ pcRun' = "raise"
    /\ UNCHANGED <<cfgVars, extVars, startTime, outputMonitor, commandLaunched,
                   logDescs, procEndTime, pendingEx, waitBounded, waitStart, interrupted,
                   childVars, readerVars, queueVars, monitorVars, logVars,
                   now>>

\* self.str__separator and self.str__decorate: the instance attributes
\* SetStrOpts has set, else the class attributes.
str__separator ==
    IF strOpts = None THEN DEFAULT__STR__SEPARATOR ELSE strOpts[1].separator
str__decorate == IF strOpts = None THEN TRUE ELSE strOpts[1].decorate

\* RunShellCommand.__str__
__str__ ==
    LET strRep == join(str__separator, execArray)
    IN  IF str__decorate THEN <<"[">> \o strRep \o <<"]">> ELSE strRep

STDERR_DISPLAY_CONTEXT == 5

\* s[-n:]
LastN(s, n) == SubSeq(s, IF Len(s) > n THEN Len(s) - n + 1 ELSE 1, Len(s))

\* s[:n]
FirstN(s, n) == SubSeq(s, 1, IF Len(s) > n THEN n ELSE Len(s))

\* The explanation with stderr[:STDERR_DISPLAY_CONTEXT] for the slice.
Explanation_FirstLines ==
    <<"RunShellCommand(): ", "command ">> \o __str__ \o
    (IF processTimedOut THEN <<" timed out">>
     ELSE IF processWasKilled
     THEN <<" killed; exit value: ", ToString(returncode[1])>>
     ELSE <<" failed; exit value: ", ToString(returncode[1]),
            ", partial stderr: ">>
          \o join(" ", FirstN(stderr, STDERR_DISPLAY_CONTEXT)))

\* RunShellCommandError.__init__(rscObj): the explanation, in pieces.
Explanation ==
    <<"RunShellCommand(): ", "command ">> \o __str__ \o
    (IF processTimedOut THEN <<" timed out">>
     ELSE IF processWasKilled
     THEN <<" killed; exit value: ", ToString(returncode[1])>>
     ELSE <<" failed; exit value: ", ToString(returncode[1]),
            ", partial stderr: ">>
          \o join(" ", LastN(stderr, STDERR_DISPLAY_CONTEXT)))

\* if self._raiseErrors and self.returncode: raise RunShellCommandError(self)
RaiseOrReturn ==
    /\ pcRun = "raise"
    /\ outcome' = IF ShouldRaise THEN "RunShellCommandError" ELSE "returned"
    /\ explanation' = IF ShouldRaise THEN Some(Explanation) ELSE explanation
    /\ pcRun' = "done"
    /\ UNCHANGED <<cfgVars, optVars, memOutput, queried, ctorVars, spawnCount,
                   rerunVars, stdinVars, procVars, consoleVars, objVars, commandLaunched, logDescs, procEndTime,
                   pendingEx, waitBounded, waitStart, interrupted, childVars, readerVars,
                   queueVars, monitorVars, logVars, now>>

\* --------------------------------------------------------- __init__
\* RunShellCommand(*call.args, **call.kwargs): the checks in order; an
\* exception leaves no object.  Otherwise the attributes are set from the
\* keywords and the defaults, _execArray is built, the private separator
\* attribute is written if a part holds the default separator, the timeout
\* is replaced by int(timeout), and Run() is entered if autoRun is true.
Construct ==
    /\ pcRun = "new"
    /\ LET ex == ConstructorRaises(call)
           command == ArgValue(call, "command")
           timeoutArg == ArgValue(call, "timeout")
           parts == ExecArrayOf(command.items)
       IN  IF ex # "none"
           THEN /\ outcome' = ex
                /\ pcRun' = "noObject"
                /\ UNCHANGED <<timeout, raiseErrors, logfile, errorLogfile,
                               combineOutput, execArray, autoRun,
                               _RunShellCommand__str__separator>>
           ELSE /\ timeout' = IF timeoutArg.t = "NoneType" THEN None
                              ELSE Some(int(timeoutArg).n)
                /\ raiseErrors' = Truthy(ArgValue(call, "raiseErrors"))
                /\ logfile' = FALSE
                /\ errorLogfile' = FALSE
                /\ combineOutput' = TRUE
                /\ execArray' = parts
                /\ _RunShellCommand__str__separator' =
                      IF \E i \in 1..Len(parts) :
                            Contains(DEFAULT__STR__SEPARATOR, parts[i])
                      THEN Some("|") ELSE None
                /\ autoRun' = Truthy(ArgValue(call, "autoRun"))
                /\ pcRun' = IF Truthy(ArgValue(call, "autoRun"))
                            THEN "idle" ELSE "constructed"
                /\ UNCHANGED outcome
    /\ UNCHANGED <<gUsingKillableProcess, optVars, explanation, stdinVars, procVars, consoleVars, memOutput, queried, call,
                   strOpts, spawnCount, rerunVars, objVars, commandLaunched, logDescs,
                   procEndTime, pendingEx, waitBounded, waitStart,
                   interrupted, childVars, readerVars, queueVars,
                   monitorVars, logVars, now>>

\* Separators a caller passes to SetStrOpts.
Separators == {",", "|", " "}

\* SetStrOpts(separator, decorate), called while the caller is not in Run().
SetStrOpts(separator, decorate) ==
    /\ pcRun \in {"constructed", "done"}
    /\ strOpts' = Some([separator |-> separator, decorate |-> decorate])
    /\ UNCHANGED <<cfgVars, optVars, explanation, stdinVars, procVars, consoleVars, memOutput, queried, call, execArray,
                   autoRun, _RunShellCommand__str__separator, spawnCount,
                   rerunVars, objVars, runVars, childVars, readerVars, queueVars,
                   monitorVars, logVars, now>>

\* ------------------------------------------------------ Run() again
\* The result fields a caller reads from the object.
ResultFields ==
    [returncode |-> returncode, starttime |-> startTime, endtime |-> endTime,
     processkilled |-> processWasKilled, processtimedout |-> processTimedOut,
     stdout |-> stdout, stderr |-> stderr]

\* The caller calls Run() on an object whose Run() is over.  Nothing in
\* Run() looks at what an earlier call left: its locals start afresh (a new
\* queue, no process, no threads), the attributes keep their values until
\* this call assigns them, and the clock goes on.  firstResult keeps the
\* fields as the first call left them.
RunAgain ==
    /\ pcRun = "done"
    /\ reruns < MaxReruns
    /\ reruns' = reruns + 1
    /\ firstResult' = IF firstResult = None THEN Some(ResultFields)
                                            ELSE firstResult
    /\ pcRun' = "idle"
    /\ commandLaunched' = FALSE
    /\ logDescs' = <<>>
    /\ procEndTime' = None
    /\ pendingEx' = "none"
    /\ outcome' = "none"
    /\ waitBounded' = FALSE
    /\ waitStart' = 0
    /\ interrupted' = FALSE
    /\ childState' = "none"
    /\ childRc' = None
    /\ procReturncode' = None
    /\ wrote' = [s \in Streams |-> 0]
    /\ pipe' = [s \in Streams |-> <<>>]
    /\ pipeClosed' = [s \in Streams |-> FALSE]
    /\ pcReader' = [s \in Streams |-> "unstarted"]
    /\ readLog' = [s \in Streams |-> <<>>]
    /\ queue' = <<>>
    /\ unfinished' = 0
    /\ pcMonitor' = "unstarted"
    /\ UNCHANGED <<cfgVars, optVars, explanation, stdinVars, procVars, consoleVars, memOutput, queried, ctorVars, spawnCount,
                   objVars, streamDeathCount, collectedOutput,
                   bigOutputFileHandle, bigFile, logVars, now>>

\* ------------------------------------------------- reading the result
\* A read of property k that uses up the spill file as it goes.
Query_Consuming(k) ==
    /\ pcRun = "done"
    /\ queried[k].n < MaxQueries
    /\ queried' = [queried EXCEPT ![k] = [n |-> @.n + 1,
                                          value |-> Some(QueryValue(k))]]
    /\ bigFile' = <<>>
    /\ UNCHANGED <<cfgVars, optVars, explanation, stdinVars, procVars, consoleVars, memOutput, ctorVars, spawnCount, rerunVars,
                   objVars,
                   runVars, childVars, readerVars, queueVars, pcMonitor,
                   streamDeathCount,
                   collectedOutput, bigOutputFileHandle, logVars, now>>

\* The caller reads property k after Run() is over: GetOutput opens its own
\* handle on the spill file, reads it from the start and closes it, or
\* copies the lists in memory; the monitor's state is not assigned.
Query(k) ==
    /\ pcRun = "done"
    /\ queried[k].n < MaxQueries
    /\ queried' = [queried EXCEPT ![k] = [n |-> @.n + 1,
                                          value |-> Some(QueryValue(k))]]
    /\ UNCHANGED <<cfgVars, optVars, explanation, stdinVars, procVars, consoleVars, memOutput, ctorVars, spawnCount, rerunVars,
                   objVars,
                   runVars, childVars, readerVars, queueVars, monitorVars,
                   logVars, now>>

\* ------------------------------------------------------- specification
Next ==
    \/ RunOpenLogs
    \/ RunPopen
    \/ \E e \in SpawnErrnos : RunPopenFail(e)
    \/ RunStartThreads
    \/ WaitReturn
    \/ WaitTimeout
    \/ \E recorded \in KillRecords : WaitInterrupt(recorded)
    \/ Tick
    \/ JoinStderrReader
    \/ JoinStdoutReader
    \/ JoinMonitor
    \/ JoinQueue
    \/ CloseLogs
    \/ FinallyResult
    \/ RaiseOrReturn
    \/ \E s \in Streams : ChildWrite(s)
    \/ \E rc \in ExitCodes : ChildExit(rc)
    \/ \E s \in Streams : ReadLine(s)
    \/ \E s \in Streams : ReadEOF(s)
    \/ MonitorSentinel
    \/ MonitorLine
    \/ MonitorFinish

Spec == Init /\ [][Next]_vars

\* Fairness: every thread that can take a step is eventually scheduled, and
\* a running child eventually writes or exits.  Nothing obliges the clock to
\* tick, an interrupt to arrive or the spawn to fail.
RunStep ==
    \/ RunOpenLogs \/ RunPopen \/ RunStartThreads \/ WaitReturn \/ WaitTimeout
    \/ JoinStderrReader \/ JoinStdoutReader \/ JoinMonitor \/ JoinQueue
    \/ CloseLogs \/ FinallyResult \/ RaiseOrReturn
ChildStep == (\E s \in Streams : ChildWrite(s)) \/ (\E rc \in ExitCodes : ChildExit(rc))
ReaderStep(s) == ReadLine(s) \/ ReadEOF(s)
MonitorStep == MonitorSentinel \/ MonitorLine \/ MonitorFinish

Fairness ==
    /\ WF_vars(RunStep)
    /\ WF_vars(ChildStep)
    /\ \A s \in Streams : WF_vars(ReaderStep(s))
    /\ WF_vars(MonitorStep)

\* Commands that log stdout alone to a file; every timeout, capability and
\* raiseErrors setting.
InitFair == Init /\ logfile /\ ~combineOutput /\ ~errorLogfile

\* Thresholds RUN_SHELL_COMMAND_IN_MEM_LINES may be configured to.
Thresholds == 0..InMemLines

\* Commands without log files built with either storeBigOutput setting,
\* under every threshold, whose result the caller then reads.
SpillInit ==
    /\ timeout \in {None} \cup {Some(t) : t \in 1..MaxTimeout}
    /\ raiseErrors = TRUE
    /\ gUsingKillableProcess = TRUE
    /\ logfile = FALSE
    /\ errorLogfile = FALSE
    /\ combineOutput = TRUE
    /\ maxInMemLines \in Thresholds
    /\ cmdStoreBigOutput \in BOOLEAN
    /\ Built
    /\ pcRun = "idle"
    /\ Unlaunched

SpillNext == Next \/ \E k \in QueryKeys : Query(k)

SpillSpec == SpillInit /\ [][SpillNext]_vars

\* Timeouts a call may pass: none, None, integers of either sign, a string
\* that spells an integer, one that does not, and a list.
TimeoutArgs ==
    {Absent, PyNone, PyInt(0 - 1), PyStr(<<"abc">>), PyList(<<>>),
     PyStr(<<ToString(MaxTimeout)>>)}
    \cup {PyInt(n) : n \in 1..MaxTimeout}

\* Calls by keyword, by position, and one that mixes the two.
KeywordCalls ==
    [args : {<<>>},
     kwargs : [command : {Absent, PyStr(<<"ls">>), PyList(<<>>)}
                            \cup {PyList(c) : c \in ArgvChoices},
               input : {Absent, PyStr(<<"missing.txt">>)},
               workdir : {Absent, PyStr(<<"/nonexistent">>)},
               timeout : TimeoutArgs,
               autoRun : {Absent, PyBool(FALSE)},
               raiseErrors : {Absent, PyBool(FALSE)},
               printOutput : {Absent},
               verbose : {Absent}]]
PositionalCalls == [args : ArgvChoices, kwargs : {NoKwargs}]
MixedCalls ==
    {[args |-> CmdPlain, kwargs |-> [NoKwargs EXCEPT !.timeout = PyNone]]}
Calls == KeywordCalls \cup PositionalCalls \cup MixedCalls

\* Before RunShellCommand(...) is entered: no attribute is set yet (the
\* variables hold what __init__ will first assign), killableprocess is
\* available and the call is any of Calls.
CtorInit ==
    /\ call \in Calls
    /\ timeout = None
    /\ raiseErrors = TRUE
    /\ gUsingKillableProcess = TRUE
    /\ logfile = FALSE
    /\ errorLogfile = FALSE
    /\ combineOutput = TRUE
    /\ maxInMemLines = InMemLines
    /\ cmdStoreBigOutput = TRUE
    /\ execArray = <<>>
    /\ autoRun = FALSE
    /\ strOpts = None
    /\ _RunShellCommand__str__separator = None
    /\ pcRun = "new"
    /\ Unlaunched

CtorNext ==
    \/ Construct
    \/ \E separator \in Separators, decorate \in BOOLEAN :
          SetStrOpts(separator, decorate)
    \/ Next

CtorSpec == CtorInit /\ [][CtorNext]_vars

\* Commands without log files, run by the caller and run again.
RerunInit ==
    /\ Init
    /\ raiseErrors = FALSE
    /\ gUsingKillableProcess
    /\ ~logfile /\ ~errorLogfile /\ combineOutput

RerunNext == Next \/ RunAgain

RerunSpec == RerunInit /\ [][RerunNext]_vars

FairSpec == InitFair /\ [][Next]_vars /\ Fairness

\* ------------------------------------------------ Process, Step, runners
\* GetActivePartners(conf): the partners, in the order the loop meets them.
ActivePartners == [i \in 1..MaxPartners |-> i]

\* self._enableNotifications: set False by Process.__init__, which takes no
\* argument for it.
_enableNotifications == FALSE

\* The runner methods with DoVerify called before DoExecute.
Phases_VerifyFirst ==
    <<"Preflight">>
    \o (IF _verifySteps THEN <<"Verify">> ELSE <<>>)
    \o (IF _executeSteps THEN <<"Execute">> ELSE <<>>)

\* The runner methods _PerformStep calls, in order.
Phases ==
    <<"Preflight">>
    \o (IF _executeSteps THEN <<"Execute">> ELSE <<>>)
    \o (IF _verifySteps THEN <<"Verify">> ELSE <<>>)
    \o (IF _enableNotifications THEN <<"Notify">> ELSE <<>>)

\* A step class of a process: PartnerStep or Step, and the keyword
\* halt_on_first_error its constructor passes on.
StepClass(name, partner, halt) ==
    [name |-> name, partner |-> partner, _haltOnFirstError |-> halt]

\* One call of a step method: the step, the method, the active partner (0
\* for a Step that is no PartnerStep).
MethodCall(i, phase, p) == <<i, phase, p>>

\* A ReleaseFrameworkError raised by the call c.
ReleaseFrameworkError(c) == [type |-> "ReleaseFrameworkError", group |-> <<c>>]

\* ReleaseFrameworkErrorCollection(errors)
ReleaseFrameworkErrorCollection(group) ==
    [type |-> "ReleaseFrameworkErrorCollection", group |-> group]

\* The search going on past a match: the last index with the name.
RECURSIVE FindStep_Last(_, _, _)
FindStep_Last(processSteps, name, i) ==
    IF i >= Len(processSteps) THEN Len(processSteps)
    ELSE LET later == FindStep_Last(processSteps, name, i + 1)
         IN  IF later < Len(processSteps) THEN later
             ELSE IF processSteps[i + 1].name = name THEN i
             ELSE Len(processSteps)

\* startNdx of Run: the first index whose step has the name (from 0), the
\* number of steps if there is none.
RECURSIVE FindStep(_, _, _)
FindStep(processSteps, name, i) ==
    IF i >= Len(processSteps) THEN Len(processSteps)
    ELSE IF processSteps[i + 1].name = name THEN i
    ELSE FindStep(processSteps, name, i + 1)

\* processSteps[startNdx:endNdx] as the pair of indices (from 0) of its
\* first step and of the step after its last, for 0 <= startNdx.
SliceBounds(n, startNdx, endIndex) ==
    LET e == IF endIndex < 0 THEN (IF n + endIndex < 0 THEN 0 ELSE n + endIndex)
             ELSE IF endIndex > n THEN n ELSE endIndex
    IN  [from |-> startNdx, to |-> IF e < startNdx THEN startNdx ELSE e]

\* Process.Run(name, n) up to the first step method: the search for the
\* starting step (ValueError if there is none), the slice, and _PerformStep
\* of its first step entered.
ProcessRun(name, n) ==
    /\ pcProcess = "idle"
    /\ startingStepName' = name
    /\ stepsToRun' = n
    /\ LET startNdx == IF name = None THEN 0 ELSE FindStep(steps, name[1], 0)
           slice == SliceBounds(Len(steps), startNdx,
                                IF n = None THEN Len(steps) ELSE startNdx + n[1])
       IN  IF name # None /\ startNdx = Len(steps)
           THEN /\ raised' = Some([type |-> "ValueError", group |-> <<>>])
                /\ pcProcess' = "done"
                /\ UNCHANGED <<stepNdx, endNdx, phaseNdx, partnerNdx>>
           ELSE /\ stepNdx' = slice.from
                /\ endNdx' = slice.to
                /\ phaseNdx' = 1
                /\ partnerNdx' = 1
                /\ pcProcess' = IF slice.from < slice.to THEN "perform" ELSE "done"
                /\ UNCHANGED raised
    /\ UNCHANGED <<steps, failing, _ignoreErrors, _executeSteps, _verifySteps,
                   _everHadErrors, errors, calls, printed>>
    /\ UNCHANGED <<cfgVars, optVars, memOutput, queried, ctorVars, spawnCount,
                   rerunVars, explanation, consoleVars, stdinVars, objVars, runVars,
                   childVars, readerVars, queueVars, monitorVars, logVars, now>>

\* The loop of Run goes to the step after stepNdx, or Run returns.
NextStep(hadErrors, out) ==
    /\ _everHadErrors' = hadErrors
    /\ printed' = out
    /\ errors' = <<>>
    /\ phaseNdx' = 1
    /\ partnerNdx' = 1
    /\ stepNdx' = stepNdx + 1
    /\ pcProcess' = IF stepNdx + 1 < endNdx THEN "perform" ELSE "done"
    /\ UNCHANGED raised

\* _PerformStep goes to the next runner method of the step, or returns.
NextPhase(out) ==
    IF phaseNdx < Len(Phases)
    THEN /\ phaseNdx' = phaseNdx + 1
         /\ partnerNdx' = 1
         /\ errors' = <<>>
         /\ printed' = out
         /\ UNCHANGED <<stepNdx, pcProcess, raised, _everHadErrors>>
    ELSE NextStep(_everHadErrors, out)

\* The handler that prints the error and goes on whatever _ignoreErrors is.
PerformStepExcept_AlwaysIgnores(ex, out) == NextStep(TRUE, Append(out, ex))

\* except ReleaseFrameworkError, ex of _PerformStep
PerformStepExcept(ex, out) ==
    IF _ignoreErrors
    THEN NextStep(TRUE, Append(out, ex))
    ELSE /\ _everHadErrors' = TRUE
         /\ raised' = Some(ex)
         /\ pcProcess' = "done"
         /\ printed' = out
         /\ UNCHANGED <<stepNdx, phaseNdx, partnerNdx, errors>>

\* The except clause of the partner loop raising whatever the step's
\* _haltOnFirstError is.
PartnerExcept_AlwaysHalts(ex) == PerformStepExcept(ex, printed)

\* except ReleaseFrameworkError, ex of _RunPartnerStepMethod followed by the
\* rest of the loop: the error is raised, or printed and collected; after
\* the last partner the collection, if not empty, is raised.
PartnerExcept(ex) ==
    IF steps[stepNdx + 1]._haltOnFirstError
    THEN PerformStepExcept(ex, printed)
    ELSE IF partnerNdx < Len(ActivePartners)
    THEN /\ partnerNdx' = partnerNdx + 1
         /\ errors' = Append(errors, ex)
         /\ printed' = Append(printed, ex)
         /\ UNCHANGED <<stepNdx, phaseNdx, pcProcess, raised, _everHadErrors>>
    ELSE PerformStepExcept(ReleaseFrameworkErrorCollection(
                               Concat(SeqMap("group", Append(errors, ex)))),
                           Append(printed, ex))

\* One call of a step method by the runner of the step, with what follows
\* it up to the next call: the partner loop, the phases of _PerformStep,
\* its except clause and the loop of Run.
StepMethod ==
    /\ pcProcess = "perform"
    /\ LET step == steps[stepNdx + 1]
           c == MethodCall(stepNdx, Phases[phaseNdx],
                           IF step.partner THEN ActivePartners[partnerNdx] ELSE 0)
           ex == ReleaseFrameworkError(c)
       IN  /\ calls' = Append(calls, c)
           /\ IF ~step.partner
              THEN IF c \in failing THEN PerformStepExcept(ex, printed)
                                    ELSE NextPhase(printed)
              ELSE IF c \in failing THEN PartnerExcept(ex)
              ELSE IF partnerNdx < Len(ActivePartners)
              THEN /\ partnerNdx' = partnerNdx + 1
                   /\ UNCHANGED <<stepNdx, phaseNdx, pcProcess, raised,
                                  _everHadErrors, errors, printed>>
              ELSE IF errors # <<>>
              THEN PerformStepExcept(ReleaseFrameworkErrorCollection(
                                         Concat(SeqMap("group", errors))),
                                     printed)
              ELSE NextPhase(printed)
    /\ UNCHANGED <<steps, failing, _ignoreErrors, _executeSteps, _verifySteps,
                   startingStepName, stepsToRun, endNdx>>
    /\ UNCHANGED <<cfgVars, optVars, memOutput, queried, ctorVars, spawnCount,
                   rerunVars, explanation, consoleVars, stdinVars, objVars, runVars,
                   childVars, readerVars, queueVars, monitorVars, logVars, now>>

\* Everything of a RunShellCommand, unused while a Process is the subject.
NoCommand ==
    /\ timeout = None
    /\ raiseErrors = TRUE
    /\ gUsingKillableProcess = TRUE
    /\ logfile = FALSE
    /\ errorLogfile = FALSE
    /\ combineOutput = TRUE
    /\ maxInMemLines = InMemLines
    /\ cmdStoreBigOutput = TRUE
    /\ Built
    /\ pcRun = "idle"
    /\ processWasKilled = FALSE /\ processTimedOut = FALSE
    /\ startTime = None /\ endTime = None /\ returncode = None
    /\ outputMonitor = FALSE /\ commandLaunched = FALSE /\ logDescs = <<>>
    /\ procEndTime = None /\ pendingEx = "none" /\ outcome = "none"
    /\ waitBounded = FALSE /\ waitStart = 0 /\ interrupted = FALSE
    /\ childState = "none" /\ childRc = None /\ procReturncode = None
    /\ wrote = [s \in Streams |-> 0]
    /\ pipe = [s \in Streams |-> <<>>]
    /\ pipeClosed = [s \in Streams |-> FALSE]
    /\ pcReader = [s \in Streams |-> "unstarted"]
    /\ readLog = [s \in Streams |-> <<>>]
    /\ queue = <<>> /\ unfinished = 0
    /\ pcMonitor = "unstarted" /\ streamDeathCount = 0
    /\ collectedOutput = [s \in Streams |-> <<>>]
    /\ bigOutputFileHandle = "none" /\ bigFile = <<>>
    /\ handleState = [h \in Handles |-> "unopened"]
    /\ logData = [h \in Handles |-> <<>>]
    /\ now = 0
    /\ memOutput = [s \in Streams |-> <<>>]
    /\ queried = [k \in QueryKeys |-> [n |-> 0, value |-> None]]
    /\ spawnCount = 0 /\ reruns = 0 /\ firstResult = None
    /\ explanation = None
    /\ hasStdin = FALSE /\ stdinPipe = <<>> /\ stdinPos = 0
    /\ stdinCloses = 0 /\ pcWriter = "none" /\ childIn = <<>>
    /\ sysStdout = "ok" /\ console = <<>>

\* A Process object after __init__, before Run.
Idle ==
    /\ _everHadErrors = FALSE
    /\ startingStepName = None
    /\ stepsToRun = None
    /\ pcProcess = "idle"
    /\ stepNdx = 0 /\ endNdx = 0 /\ phaseNdx = 0 /\ partnerNdx = 0
    /\ errors = <<>> /\ calls = <<>> /\ printed = <<>>
    /\ raised = None

\* The phases a step method can fail in.
AllPhases == {"Preflight", "Execute", "Verify"}

\* A process of two PartnerSteps built alike, with or without
\* halt_on_first_error; the methods Preflight and Execute of the first fail
\* for any set of partners; the process ignores errors or not.
PartnerInit ==
    /\ NoCommand
    /\ \E halt \in BOOLEAN :
          steps = <<StepClass("1", TRUE, halt), StepClass("2", TRUE, halt)>>
    /\ failing \in SUBSET {MethodCall(0, ph, ActivePartners[k]) :
                             ph \in {"Preflight", "Execute"}, k \in 1..MaxPartners}
    /\ _ignoreErrors \in BOOLEAN
    /\ _executeSteps = TRUE
    /\ _verifySteps = TRUE
    /\ Idle

PartnerNext == ProcessRun(None, None) \/ StepMethod

PartnerSpec == PartnerInit /\ [][PartnerNext]_vars

\* The name of the i-th declared step: the last step is of the class of
\* the second.
StepName(i) == ToString(IF i = MaxProcSteps THEN 2 ELSE i)

\* The arguments Run is called with: no name, the name of a step or of
\* none; no count or a count up to one more than the steps.
StartNames == {None} \cup {Some(ToString(i)) : i \in 1..MaxProcSteps}
StepCounts == {None} \cup {Some(k) : k \in 0..(MaxProcSteps + 1)}

\* A process of MaxProcSteps plain Steps, each failing in at most one of
\* its phases, built with any ignoreErrors and with executeSteps or
\* verifySteps (the constructor asserts one of them).
ProcInit ==
    /\ NoCommand
    /\ steps = [i \in 1..MaxProcSteps |-> StepClass(StepName(i), FALSE, FALSE)]
    /\ \E f \in [0..(MaxProcSteps - 1) -> AllPhases \cup {"none"}] :
          failing = {MethodCall(i, f[i], 0) : i \in {j \in DOMAIN f : f[j] # "none"}}
    /\ _ignoreErrors \in BOOLEAN
    /\ _executeSteps \in BOOLEAN
    /\ _verifySteps \in BOOLEAN
    /\ _executeSteps \/ _verifySteps
    /\ Idle

ProcNext ==
    \/ \E name \in StartNames, n \in StepCounts : ProcessRun(name, n)
    \/ StepMethod

ProcSpec == ProcInit /\ [][ProcNext]_vars

\* The n lines of an input stream.
InputOf(n) == PyFile([i \in 1..n |-> PyStr(<<"i", ToString(i), "\n">>)])

\* Commands built with and without input=<open stream of 0..MaxInput lines>;
\* the child writes to both of its pipes.
StdinInit ==
    /\ timeout \in {None} \cup {Some(t) : t \in 1..MaxTimeout}
    /\ raiseErrors = FALSE
    /\ gUsingKillableProcess = TRUE
    /\ logfile = FALSE
    /\ errorLogfile = FALSE
    /\ combineOutput = FALSE
    /\ maxInMemLines = InMemLines
    /\ cmdStoreBigOutput = TRUE
    /\ \E i \in {Absent} \cup {InputOf(n) : n \in 0..MaxInput} :
           call = [CallFor(timeout, raiseErrors) EXCEPT !.kwargs.input = i]
    /\ execArray = ExecArrayOf(CmdPlain)
    /\ autoRun = FALSE
    /\ strOpts = None
    /\ _RunShellCommand__str__separator = None
    /\ pcRun = "idle"
    /\ Unlaunched

WriterStep == WriteInputLine \/ WriteInputBrokenPipe \/ WriteInputClose

StdinNext == Next \/ WriterStep \/ ChildReadStdin \/ JoinStdinWriter

StdinSpec == StdinInit /\ [][StdinNext]_vars

\* The n lines a child wrote to stderr, as the monitor collected them.
ErrLineDescs(n) ==
    [k \in 1..n |-> OutputLineDesc(PIPE_STDERR, LineText(PIPE_STDERR, k))]

\* The flags and the exit status Run() can reach line 760 with: the flags
\* are never cleared, so a second Run() of an instance whose first one was
\* interrupted arrives with processkilled alone.
RaiseFlags ==
    {[killed |-> FALSE, timedout |-> FALSE],
     [killed |-> TRUE, timedout |-> FALSE],
     [killed |-> TRUE, timedout |-> TRUE]}

\* Run() about to execute line 760, for a child that wrote nothing to
\* stdout and 0..MaxStderrShown lines to its own stderr pipe, all of them
\* collected; the lists were flushed to the big output file by the two
\* sentinels (stdout's first) and never before (maxInMemLines is the
\* longest list).
ErrInit ==
    \E n \in 0..MaxStderrShown, f \in RaiseFlags, rc \in ExitCodes \cup {KillRC} :
        /\ timeout = Some(MaxTimeout)
        /\ raiseErrors \in BOOLEAN
        /\ gUsingKillableProcess = TRUE
        /\ logfile = FALSE
        /\ errorLogfile = FALSE
        /\ combineOutput = FALSE
        /\ maxInMemLines = MaxStderrShown
        /\ cmdStoreBigOutput = TRUE
        /\ Built
        /\ pcRun = "raise"
        /\ processWasKilled = f.killed
        /\ processTimedOut = f.timedout
        /\ startTime = Some(0)
        /\ endTime = Some(0)
        /\ returncode = Some(rc)
        /\ outputMonitor = TRUE
        /\ commandLaunched = TRUE
        /\ logDescs = <<>>
        /\ procEndTime = Some(0)
        /\ pendingEx = "none"
        /\ outcome = "none"
        /\ waitBounded = TRUE
        /\ waitStart = 0
        /\ interrupted = FALSE
        /\ childState = "exited"
        /\ childRc = Some(rc)
        /\ procReturncode = Some(rc)
        /\ wrote = [s \in Streams |-> IF s = PIPE_STDERR THEN n ELSE 0]
        /\ pipe = [s \in Streams |-> <<>>]
        /\ pipeClosed = [s \in Streams |-> TRUE]
        /\ pcReader = [s \in Streams |-> "done"]
        /\ readLog = [s \in Streams |->
                        IF s = PIPE_STDERR
                        THEN [k \in 1..n |-> LineText(PIPE_STDERR, k)]
                        ELSE <<>>]
        /\ queue = <<>>
        /\ unfinished = 0
        /\ pcMonitor = "done"
        /\ streamDeathCount = monitoredStreams
        /\ collectedOutput = [s \in Streams |-> <<>>]
        /\ bigOutputFileHandle = "closed"
        /\ bigFile = <<[type |-> PIPE_STDOUT, contents |-> <<>>],
                       [type |-> PIPE_STDERR, contents |-> ErrLineDescs(n)]>>
        /\ handleState = [h \in Handles |-> "unopened"]
        /\ logData = [h \in Handles |-> <<>>]
        /\ now = 0
        /\ memOutput = [s \in Streams |->
                          IF s = PIPE_STDERR THEN ErrLineDescs(n) ELSE <<>>]
        /\ queried = [k \in QueryKeys |-> [n |-> 0, value |-> None]]
        /\ spawnCount = 1
        /\ reruns = 0
        /\ firstResult = None
        /\ explanation = None
        /\ hasStdin = FALSE
        /\ stdinPipe = <<>>
        /\ stdinPos = 0
        /\ stdinCloses = 0
        /\ pcWriter = "none"
        /\ childIn = <<>>
        /\ sysStdout = "ok"
        /\ console = <<>>
        /\ NoProcess

ErrNext == RaiseOrReturn

ErrSpec == ErrInit /\ [][ErrNext]_vars

\* Commands with a timeout whose output is or is not printed and is
\* logged, both streams, to one file; reads of the pipes, writes to the console and
\* writes to the log may fail, and the caller reads the result.
FaultInit ==
    /\ timeout = Some(MaxTimeout)
    /\ raiseErrors = TRUE
    /\ gUsingKillableProcess = TRUE
    /\ logfile = TRUE
    /\ errorLogfile = FALSE
    /\ combineOutput = TRUE
    /\ maxInMemLines = InMemLines
    /\ cmdStoreBigOutput = TRUE
    /\ \E p \in {Absent, PyBool(TRUE)} :
           call = [CallFor(timeout, raiseErrors) EXCEPT !.kwargs.printOutput = p]
    /\ execArray = ExecArrayOf(CmdPlain)
    /\ autoRun = FALSE
    /\ strOpts = None
    /\ _RunShellCommand__str__separator = None
    /\ pcRun = "idle"
    /\ Unlaunched

\* The failures of the monitor's iteration: in the print, in a log write.
RaiseCauses == {"console", "log"}

FaultNext ==
    \/ Next
    \/ StdoutBreaks
    \/ \E s \in Streams : ReadError(s)
    \/ \E cause \in RaiseCauses : MonitorLineRaises(cause)
    \/ \E k \in QueryKeys : Query(k)

FaultSpec == FaultInit /\ [][FaultNext]_vars

\* No failure is obliged to happen; the threads are scheduled as in
\* FairSpec.
FaultFairSpec == FaultSpec /\ Fairness

\* ------------------------------------------------------------- claims
\* Run() has ended after launching the child, and no KeyboardInterrupt cut
\* the wait short: the child exited by itself or was killed on timeout.
WaitCompleted == pcRun = "done" /\ commandLaunched /\ pendingEx = "none"

\* Both readers and the monitor have ended and every queued record was
\* acknowledged.
ThreadsJoined ==
    /\ \A s \in Streams : pcReader[s] = "done"
    /\ pcMonitor = "done"
    /\ unfinished = 0

\* Every log handle Run() opened is closed.
SinksClosed == \A h \in Handles : handleState[h] # "open"

RECURSIVE StripLines(_)
StripLines(lines) ==
    IF lines = <<>> THEN <<>>
    ELSE <<REMOVE_LINE_ENDING(Head(lines))>> \o StripLines(Tail(lines))

\* C1: after every completed Run, whatever the interleaving of the readers
\* and the monitor, stdout is exactly the lines the stdout reader read from
\* its pipe (line endings removed), in order, and stderr those the stderr
\* reader read; together they are as many as the child wrote.
C1_OutputExact ==
    (pcRun = "done" /\ commandLaunched) =>
        /\ stdout = StripLines(readLog[PIPE_STDOUT])
        /\ stderr = StripLines(readLog[PIPE_STDERR])
        /\ Len(stdout) + Len(stderr) = wrote[PIPE_STDOUT] + wrote[PIPE_STDERR]

\* A completed Run whose stdout crossed the in-memory threshold while
\* stderr lines were interleaved.
C1_Witness ==
    /\ pcRun = "done" /\ commandLaunched
    /\ Len(readLog[PIPE_STDOUT]) = MaxLines
    /\ Len(readLog[PIPE_STDERR]) = MaxErrLines
    /\ Len(bigFile) > 2
    /\ bigFile[1].type = PIPE_STDERR

C3_NonZeroRaises ==
    /\ (WaitCompleted /\ raiseErrors /\ PyTruth(childRc))
           => outcome = "RunShellCommandError"
    /\ outcome = "RunShellCommandError"
           => (ThreadsJoined /\ SinksClosed /\ returncode = childRc)

\* Run() raised RunShellCommandError for a child killed on timeout.
C3_Witness ==
    /\ outcome = "RunShellCommandError"
    /\ returncode = Some(KillRC)
    /\ logDescs # <<>>

\* C4: with raiseErrors, a command that exits with return code 0 makes Run()
\* return normally, for every timeout setting.
C4_ZeroReturns ==
    (WaitCompleted /\ raiseErrors /\ childRc = Some(0)) => outcome = "returned"

\* Run() returned for a command with timeout None that exited with 0.
C4_Witness ==
    /\ WaitCompleted /\ raiseErrors /\ childRc = Some(0)
    /\ timeout = None
    /\ outcome = "returned"

\* C5: without raiseErrors Run() never raises RunShellCommandError; a
\* command that exits non-zero or is killed on timeout makes Run() return
\* normally with returncode holding the child's exit status.
C5_NoRaiseWithoutFlag ==
    ~raiseErrors =>
        /\ outcome # "RunShellCommandError"
        /\ (WaitCompleted /\ PyTruth(childRc))
               => (outcome = "returned" /\ returncode = childRc)

\* Run() returned normally for a command killed on timeout.
C5_Witness ==
    /\ ~raiseErrors /\ WaitCompleted
    /\ childRc = Some(KillRC)
    /\ outcome = "returned"

\* The bounded wait expired and killed the child.
KilledOnTimeout ==
    /\ commandLaunched /\ pendingEx = "none"
    /\ childRc = Some(KillRC)

\* C6: when the wait is bounded and the timeout expires with the child
\* running, the child is killed and after Run() both processkilled and
\* processtimedout are True.
C6_TimeoutSetsFlags ==
    (pcRun = "done" /\ KilledOnTimeout)
        => (childState = "exited" /\ processWasKilled /\ processTimedOut)

\* C7: a command that exits by itself, uninterrupted, before any timeout
\* expires (always so with timeout None) has both flags False after Run().
C7_FlagsOnlyWhenKilled ==
    (/\ WaitCompleted
     /\ childRc # Some(KillRC)
     /\ (timeout = None \/ endTime[1] - startTime[1] < timeout[1]))
        => (~processWasKilled /\ ~processTimedOut)

\* C8: the wait is bounded exactly when a timeout is configured and the
\* kill capability is enabled; otherwise the child is never killed for
\* elapsed time, and the wait ends only when the child has exited by itself.
C8_BoundedIff ==
    /\ pcRun = "wait"
           => (waitBounded <=> (timeout # None /\ gUsingKillableProcess))
    /\ (timeout = None \/ ~gUsingKillableProcess)
           => (/\ ~KilledOnTimeout
               /\ (procEndTime # None /\ pendingEx = "none")
                      => (childRc # None /\ childRc[1] \in ExitCodes))

\* A command with a timeout but no kill capability ran past its timeout.
C8_Witness ==
    /\ timeout = Some(1) /\ ~gUsingKillableProcess
    /\ pcRun = "done" /\ pendingEx = "none"
    /\ endTime[1] - startTime[1] >= timeout[1]

\* C9: a KeyboardInterrupt during the wait kills the child and sets
\* processkilled; the readers, the monitor and the queue are joined and the
\* log handles closed; then the KeyboardInterrupt leaves Run(), whatever
\* raiseErrors is.
C9_InterruptPropagates ==
    /\ interrupted => (processWasKilled /\ childState = "exited")
    /\ (pcRun = "done" /\ interrupted) => outcome = "KeyboardInterrupt"
    /\ outcome = "KeyboardInterrupt"
           => (interrupted /\ ThreadsJoined /\ SinksClosed)

\* A KeyboardInterrupt left a Run() that would otherwise have raised
\* RunShellCommandError.
C9_Witness ==
    /\ outcome = "KeyboardInterrupt"
    /\ raiseErrors /\ PyTruth(returncode)
    /\ timeout # None
    /\ logDescs # <<>>

\* C10: on every exit path of Run(), every log handle it opened is closed
\* and every thread it started has ended.
C10_CleanupUnconditional ==
    pcRun = "done" =>
        /\ SinksClosed
        /\ \A s \in Streams : pcReader[s] \in {"unstarted", "done"}
        /\ pcMonitor \in {"unstarted", "done"}
\* C11: when Run() is over, stdout, stderr and rawstdout of a run whose
\* output went through the spill file are what a monitor keeping every
\* record in memory returns: same records, same order, same endings.
C11_SpillTransparent ==
    (pcRun = "done" /\ outputMonitor /\ backedByFile) =>
        /\ stdout = InMemOutput(PIPE_STDOUT, FALSE)
        /\ stderr = InMemOutput(PIPE_STDERR, FALSE)
        /\ rawstdout = InMemOutput(PIPE_STDOUT, TRUE)

\* A finished run whose stdout overflowed the threshold more than once.
C11_Witness ==
    /\ pcRun = "done"
    /\ \E i, j \in 1..Len(bigFile) :
          /\ i < j
          /\ bigFile[i].type = PIPE_STDOUT /\ bigFile[i].contents # <<>>
          /\ bigFile[j].type = PIPE_STDOUT /\ bigFile[j].contents # <<>>
    /\ stderr # <<>>

C14_NoSpillWhenDisabled ==
    ~cmdStoreBigOutput => (bigOutputFileHandle = "none" /\ bigFile = <<>>)

\* C13: when Run() has left by raising RunShellCommandError or the
\* KeyboardInterrupt it caught, stdout and stderr of the command object are
\* exactly the lines each reader read from its pipe, in the order read.
C13_PartialOutputKept ==
    (pcRun = "done" /\ outcome \in {"RunShellCommandError", "KeyboardInterrupt"})
        => /\ outputMonitor
           /\ stdout = StripLines(readLog[PIPE_STDOUT])
           /\ stderr = StripLines(readLog[PIPE_STDERR])

\* An interrupted Run whose child was killed after part of its output.
C13_Witness ==
    /\ pcRun = "done"
    /\ outcome = "KeyboardInterrupt"
    /\ readLog[PIPE_STDOUT] # <<>>
    /\ wrote[PIPE_STDOUT] < MaxLines
    /\ stdout = StripLines(readLog[PIPE_STDOUT])

\* The log sink a record of stream t belongs to, if any.
SinkFor(t) ==
    IF t = PIPE_STDOUT \/ combineOutput
    THEN (IF logfile THEN {"logfile"} ELSE {})
    ELSE (IF errorLogfile THEN {"errorLogfile"} ELSE {})

\* The monitor takes a line, not a sentinel, off the queue in this step.
DequeuesLine ==
    /\ queue # <<>>
    /\ queue' = Tail(queue)
    /\ Head(queue).content # None

\* C15: each line the monitor dequeues is appended, in that step, to the one
\* sink of its stream (logfile for stdout, and for stderr when output is
\* combined; errorLogfile for stderr otherwise) and to no other, and nothing
\* else writes to a sink.  When output is combined errorLogfile is never
\* opened; when it is not, after Run() logfile holds rawstdout and
\* errorLogfile the stderr lines in the order read.
C15_LogRouting ==
    /\ [][/\ DequeuesLine =>
               \A h \in Handles :
                  logData'[h] = IF h \in SinkFor(Head(queue).type)
                                THEN Append(logData[h], Head(queue).content)
                                ELSE logData[h]
          /\ ~DequeuesLine => UNCHANGED logData]_vars
    /\ [](combineOutput => /\ handleState["errorLogfile"] = "unopened"
                           /\ logData["errorLogfile"] = <<>>)
    /\ []((pcRun = "done" /\ commandLaunched /\ ~combineOutput) =>
            /\ logfile => /\ logData["logfile"] = readLog[PIPE_STDOUT]
                          /\ Concat(logData["logfile"]) = rawstdout
            /\ errorLogfile => logData["errorLogfile"] = readLog[PIPE_STDERR])

\* A finished run with both log files named and output combined, whose one
\* sink took stderr lines between stdout lines.
C15_Witness ==
    /\ pcRun = "done"
    /\ logfile /\ errorLogfile /\ combineOutput
    /\ Len(logData["logfile"]) = MaxLines + MaxErrLines
    /\ logData["logfile"][1] = LineText(PIPE_STDOUT, 1)
    /\ logData["logfile"][2] = LineText(PIPE_STDERR, 1)

\* The call c mixes no styles and names a non-empty list or tuple whose
\* elements the loop accepts, and no input file that is missing.
CommandAccepted(c) ==
    LET command == ArgValue(c, "command")
    IN  /\ ~(c.args # <<>> /\ c.kwargs # NoKwargs)
        /\ command.t \in {"list", "tuple"}
        /\ command.items # <<>>
        /\ \A i \in 1..Len(command.items) : CommandPart(command.items[i]) # None
        /\ ArgValue(c, "input").t # "str"

\* C16: a spawn that fails leaves Run() at once with ReleaseFrameworkError
\* whatever raiseErrors is, with no reader or monitor thread started, no
\* child and returncode None; and a call whose command is accepted but
\* whose working directory is not a directory ends in __init__ with
\* ReleaseFrameworkError, no object and nothing spawned.
C16_SpawnFailureFatal ==
    /\ pendingEx = "ReleaseFrameworkError" =>
          /\ pcRun = "done" /\ outcome = "ReleaseFrameworkError"
          /\ \A s \in Streams : pcReader[s] = "unstarted"
          /\ pcMonitor = "unstarted" /\ ~outputMonitor
          /\ childState = "none" /\ spawnCount = 0
          /\ returncode = None
    /\ (pcRun # "new" /\ CommandAccepted(call) /\ ~isdir(WorkdirOf(call))) =>
          /\ pcRun = "noObject" /\ outcome = "ReleaseFrameworkError"
          /\ spawnCount = 0 /\ startTime = None

\* A command built with raiseErrors false whose spawn failed.
C16_Witness ==
    /\ pendingEx = "ReleaseFrameworkError"
    /\ ~raiseErrors
    /\ outcome = "ReleaseFrameworkError"
    /\ startTime # None

\* The call c has one of the defects the constructor is to refuse with
\* ValueError.
ListedDefect(c) ==
    LET command == ArgValue(c, "command")
        timeoutArg == ArgValue(c, "timeout")
    IN  \/ c.args # <<>> /\ c.kwargs # NoKwargs
        \/ command.t \notin {"list", "tuple"}
        \/ command.items = <<>>
        \/ \E i \in 1..Len(command.items) :
              \/ ~CheckRunShellCommandArg(command.items[i].t)
              \/ \E j \in 1..Len(command.items[i].items) :
                    ~CheckRunShellCommandArg(command.items[i].items[j].t)
        \/ ArgValue(c, "input").t = "str"
              /\ ArgValue(c, "input").s \notin ExistingFiles
        \/ timeoutArg.t # "NoneType" /\ int(timeoutArg).ex # "none"

\* C17: a call with an empty command, a command that is no list or tuple,
\* an element of an unsupported type, mixed styles, a missing input file or
\* a timeout int() does not convert (its working directory being valid)
\* ends in __init__ with ValueError, and no child is spawned.
C17_InvalidArgsRaiseValueError ==
    (pcRun # "new" /\ ListedDefect(call) /\ isdir(WorkdirOf(call))) =>
        /\ pcRun = "noObject" /\ outcome = "ValueError"
        /\ spawnCount = 0 /\ childState = "none"

\* C18: the timeout of every object __init__ has built is None or an
\* integer that is not negative.
C18_TimeoutNonNegative ==
    pcRun \notin {"new", "noObject"} => (timeout = None \/ timeout[1] >= 0)

\* C20: str() of a built command is its parts joined by ',' if no part
\* holds ',' and by '|' if one does, in brackets; after SetStrOpts it is
\* the parts joined by the separator given, in brackets if decorate is set.
C20_DisplayString ==
    pcRun \notin {"new", "noObject"} =>
        __str__ =
          LET sep == IF strOpts # None THEN strOpts[1].separator
                     ELSE IF \E i \in 1..Len(execArray) : Contains(",", execArray[i])
                          THEN "|" ELSE ","
              strRep == join(sep, execArray)
          IN  IF strOpts = None \/ strOpts[1].decorate
              THEN <<"[">> \o strRep \o <<"]">> ELSE strRep

\* C19: however often Run() is called on one object, it spawns at most one
\* child, and returncode, the start and end time, the killed and timed-out
\* flags and the captured output stay as the first call left them.
C19_RunOnce ==
    /\ spawnCount <= 1
    /\ (firstResult # None /\ pcRun = "done") => ResultFields = firstResult[1]

\* The text after "partial stderr: " when the given lines are shown.
ShownTail(lines) == join(" ", lines)

\* C21: the explanation of a RunShellCommandError is chosen by precedence
\* timed out, then killed, then failed; in the failed case it carries the
\* return code and exactly the last min(5, n) of the n captured stderr
\* lines, in their original order.
C21_ExplanationPrecedence ==
    (pcRun = "done" /\ outcome = "RunShellCommandError") =>
        /\ explanation # None
        /\ LET e == explanation[1]
               head == <<"RunShellCommand(): ", "command ">> \o __str__
               rest == SubSeq(e, Len(head) + 1, Len(e))
               n == Len(stderr)
               m == IF n < 5 THEN n ELSE 5
               shown == [i \in 1..m |-> stderr[n - m + i]]
           IN  /\ SubSeq(e, 1, Len(head)) = head
               /\ processTimedOut => rest = <<" timed out">>
               /\ (~processTimedOut /\ processWasKilled) =>
                      rest = <<" killed; exit value: ", ToString(returncode[1])>>
               /\ (~processTimedOut /\ ~processWasKilled) =>
                      rest = <<" failed; exit value: ", ToString(returncode[1]),
                               ", partial stderr: ">> \o ShownTail(shown)

\* A failure explained after the child wrote more than five stderr lines.
C21_Witness ==
    /\ pcRun = "done" /\ outcome = "RunShellCommandError"
    /\ ~processTimedOut /\ ~processWasKilled
    /\ Len(stderr) > 5
    /\ explanation # None

\* The writer is inside write() on a full stdin pipe.
FeederBlocked ==
    /\ pcWriter = "loop"
    /\ stdinPos < Len(InputLines)
    /\ childState = "running"
    /\ Len(stdinPipe) >= StdinCap

\* A write of the child to stream s would block.
ChildBlockedOn(s) == childState = "running" /\ Len(pipe[s]) >= PipeCap

\* The reader of stream s is not running, or is inside readline() on an
\* empty pipe that the child still holds open.
DrainerBlocked(s) ==
    \/ pcReader[s] = "unstarted"
    \/ pcReader[s] = "readline" /\ pipe[s] = <<>> /\ childState = "running"

C23_FieldsBeforeAndAfterRun ==
    /\ pcRun = "constructed" =>
           /\ returncode = None /\ startTime = None /\ endTime = None
           /\ runningtime = None
           /\ ~outputMonitor /\ stdout = None /\ stderr = None
           /\ ~processWasKilled /\ ~processTimedOut
           /\ ~outputBackedByFile
    /\ (pcRun = "done" /\ commandLaunched) =>
           /\ startTime # None /\ endTime # None
           /\ startTime[1] <= endTime[1]
           /\ runningtime = Some(endTime[1] - startTime[1])

\* A Run of a constructed command that launched its child and took time.
C23_Witness ==
    /\ pcRun = "done" /\ commandLaunched
    /\ startTime # None /\ endTime # None
    /\ endTime[1] > startTime[1]

\* The calls made so far of the method ph of step i, in order.
CallsOf(i, ph) ==
    SelectSeq(calls, LAMBDA c : c[1] = i /\ c[2] = ph)

\* Those of the given calls that raised.
FailedOf(cs) == SelectSeq(cs, LAMBDA c : c \in failing)

\* The place of a phase among the phases _PerformStep runs.
PhaseNo(ph) == CHOOSE k \in 1..Len(Phases) : Phases[k] = ph

\* The partner loop for method ph of step i has not ended.
InLoop(i, ph) ==
    pcProcess = "perform" /\ stepNdx = i /\ Phases[phaseNdx] = ph

\* Nothing of step i after its method ph was called, and, unless the
\* process ignores errors, nothing of a later step.
HaltedAt(i, ph) ==
    /\ \A k \in 1..Len(calls) :
          /\ calls[k][1] = i => PhaseNo(calls[k][2]) <= PhaseNo(ph)
          /\ ~_ignoreErrors => calls[k][1] <= i
    /\ _everHadErrors

StepRan(i) == \E k \in 1..Len(calls) : calls[k][1] = i

\* What holds of every error raised so far by a step method of a process.
ErrorHandled ==
    /\ _everHadErrors <=> (\E k \in 1..Len(calls) : calls[k] \in failing)
    /\ _ignoreErrors => (raised = None \/ raised[1].type = "ValueError")
    /\ \A k \in 1..Len(calls) :
          calls[k] \in failing =>
             IF _ignoreErrors
             THEN /\ \E j \in 1..Len(printed) :
                        printed[j] = ReleaseFrameworkError(calls[k])
                  /\ \A j \in (k + 1)..Len(calls) : calls[j][1] > calls[k][1]
                  /\ pcProcess = "done" =>
                        \A i \in (calls[k][1] + 1)..(endNdx - 1) : StepRan(i)
             ELSE /\ raised = Some(ReleaseFrameworkError(calls[k]))
                  /\ pcProcess = "done"
                  /\ k = Len(calls)
                  /\ printed = <<>>

\* C25: with ignoreErrors a ReleaseFrameworkError raised by any phase of a
\* step is printed, the rest of that step is skipped and every subsequent
\* step of the slice still runs; without ignoreErrors the error leaves Run
\* and no later step method is called; either way errored is True from then
\* on, and it never goes back to False.
C25_IgnoreErrorsPolicy ==
    /\ []ErrorHandled
    /\ [][_everHadErrors => _everHadErrors']_vars

\* A process ignoring errors has run its last step after its first step
\* failed.
C25_Witness ==
    /\ pcProcess = "done"
    /\ _ignoreErrors
    /\ _everHadErrors
    /\ \E k \in 1..Len(calls) : calls[k] \in failing /\ calls[k][1] = 0
    /\ StepRan(MaxProcSteps - 1)
    /\ Len(printed) > 0

\* The steps of which a method has been called.
StepsRun == {calls[k][1] : k \in 1..Len(calls)}

\* Some declared step has the name Run was given.
NamesAStep ==
    \E i \in 1..Len(steps) : steps[i].name = startingStepName[1]

\* The index (from 0) of the first declared step with the name Run was
\* given, 0 without a name.
FirstNamed ==
    IF startingStepName = None THEN 0
    ELSE CHOOSE i \in 0..(Len(steps) - 1) :
            /\ steps[i + 1].name = startingStepName[1]
            /\ \A j \in 0..(i - 1) : steps[j + 1].name # startingStepName[1]

\* The steps of the slice as the claim counts them: stepsToRun steps from
\* the starting step, or all that remain.
Requested ==
    IF stepsToRun = None THEN FirstNamed..(Len(steps) - 1)
    ELSE FirstNamed..(FirstNamed + stepsToRun[1] - 1)

\* C26 as stated: a Run that returns has run exactly stepsToRun steps from
\* the starting step (all remaining steps when None).
C26_ExactlyStepsToRun ==
    (pcProcess = "done" /\ raised = None) => StepsRun = Requested

\* C26: Run(startingStepName, stepsToRun) runs steps of the contiguous
\* slice of the declared steps that begins at the first step with the given
\* name (the first step when None) and holds stepsToRun steps, or all the
\* remaining steps when stepsToRun is None or more than remain: in declared
\* order, each step's phases in order, and all of the slice when Run
\* returns; when the name is of no step ValueError is raised before any
\* step phase runs.
C26_SliceOfSteps ==
    pcProcess # "idle" =>
        IF startingStepName # None /\ ~NamesAStep
        THEN /\ raised = Some([type |-> "ValueError", group |-> <<>>])
             /\ calls = <<>>
             /\ pcProcess = "done"
        ELSE /\ raised = None \/ raised[1].type # "ValueError"
             /\ \A k \in 1..(Len(calls) - 1) :
                   \/ calls[k + 1][1] = calls[k][1] + 1
                   \/ /\ calls[k + 1][1] = calls[k][1]
                      /\ PhaseNo(calls[k + 1][2]) = PhaseNo(calls[k][2]) + 1
             /\ calls # <<>> => calls[1][1] = FirstNamed
             /\ StepsRun \subseteq (Requested \cap (0..(Len(steps) - 1)))
             /\ (pcProcess = "done" /\ raised = None) =>
                   StepsRun = Requested \cap (0..(Len(steps) - 1))

\* Run("2", 1) has returned after running the second step alone, the first
\* of the two steps with that name.
C26_Witness ==
    /\ pcProcess = "done" /\ raised = None
    /\ startingStepName = Some("2") /\ stepsToRun = Some(1)
    /\ StepsRun = {1}

\* The places in the queue of the sentinels of stream s.
SentinelsQueued(s) ==
    {k \in 1..Len(queue) : queue[k].type = s /\ queue[k].content = None}

\* The reader of stream s has put its sentinel and the monitor has taken it.
SentinelDequeued(s) == pcReader[s] = "done" /\ SentinelsQueued(s) = {}

\* C27: each reader puts exactly one sentinel; it is the last record the
\* reader puts, and it is put only when the reader has read its pipe to EOF
\* (the child has exited and every line written was read) and closed the
\* pipe; no line of a stream is taken from the queue after that stream's
\* sentinel.
C27_OneSentinelLast ==
    /\ \A s \in Streams :
          /\ Cardinality(SentinelsQueued(s)) <= 1
          /\ SentinelsQueued(s) # {} => pcReader[s] = "done"
          /\ pcReader[s] = "done" <=> pipeClosed[s]
          /\ pcReader[s] = "done" =>
                /\ pipe[s] = <<>>
                /\ childState = "exited"
                /\ Len(readLog[s]) = wrote[s]
          /\ \A k \in SentinelsQueued(s) :
                \A j \in (k + 1)..Len(queue) : queue[j].type # s
          /\ SentinelDequeued(s) =>
                /\ \A k \in 1..Len(queue) : queue[k].type # s
                /\ Len(memOutput[s]) = Len(readLog[s])
    /\ streamDeathCount
         + Cardinality(UNION {SentinelsQueued(s) : s \in Streams})
         = Cardinality({s \in Streams : pcReader[s] = "done"})

\* The monitor has taken the sentinel of stdout after a line of stdout,
\* while the sentinel of stderr waits in the queue behind a line of stderr.
C27_Witness ==
    /\ SentinelDequeued(PIPE_STDOUT)
    /\ Len(memOutput[PIPE_STDOUT]) > 0
    /\ SentinelsQueued(PIPE_STDERR) # {}
    /\ \E k \in 1..Len(queue) :
          queue[k].type = PIPE_STDERR /\ queue[k].content # None

\* C28: the loop of the monitor ends exactly when it has taken the sentinel
\* of each of the two monitored streams: while it has taken fewer it stays
\* in the loop, and with an empty queue it can take no step, whatever the
\* time; when it has left the loop the queue is empty and no record is
\* unacknowledged.
C28_LoopEndsOnBothSentinels ==
    /\ pcMonitor = "unstarted" => streamDeathCount = 0
    /\ pcMonitor = "loop" => streamDeathCount < monitoredStreams
    /\ pcMonitor \in {"flush", "done"} =>
          /\ streamDeathCount = monitoredStreams
          /\ \A s \in Streams : SentinelDequeued(s)
          /\ queue = <<>>
          /\ unfinished = 0
    /\ (pcMonitor = "loop" /\ queue = <<>>) => ~ENABLED MonitorStep

\* The monitor has taken one sentinel and waits on the empty queue while
\* the other reader is still reading and time has passed.
C28_Witness ==
    /\ pcMonitor = "loop"
    /\ streamDeathCount = 1
    /\ queue = <<>>
    /\ \E s \in Streams : pcReader[s] = "readline"
    /\ now > 0

\* Both readers and the monitor have ended and every record put on the
\* queue was taken and acknowledged: every line the child wrote is collected.
AllProcessed ==
    /\ \A s \in Streams : pcReader[s] = "done"
    /\ pcMonitor = "done"
    /\ queue = <<>>
    /\ unfinished = 0
    /\ \A s \in Streams : Len(memOutput[s]) = wrote[s]

\* What every step of Run() and its threads respects: a log is written
\* only by an iteration of the monitor's loop, and never once closed; a
\* log is closed only by Run() at its closing step, when the readers, the
\* monitor and the queue have been joined; _endTime and _returncode are
\* assigned only then.
CleanupStep ==
    /\ \A h \in Handles :
          /\ logData'[h] # logData[h] =>
                /\ pcMonitor = "loop"
                /\ queue # <<>> /\ queue' = Tail(queue)
                /\ handleState[h] = "open"
                /\ pcRun' = pcRun
          /\ (handleState[h] # "closed" /\ handleState'[h] = "closed") =>
                /\ pcRun = "closeLogs"
                /\ AllProcessed
                /\ UNCHANGED <<pcMonitor, pcReader, queue, logData>>
    /\ (endTime' # endTime \/ returncode' # returncode) =>
          /\ pcRun = "heuristic"
          /\ AllProcessed

\* C29: the log files are written only by the monitor thread and closed
\* only by Run(), after stderrReader.join(), stdoutReader.join(), the join
\* of the monitor and outputQueue.join() have returned; no log is written
\* after it was closed; the result (_endTime, _returncode) is assigned only
\* when the monitor has processed every record.
C29_CleanupOrdering ==
    /\ [](pcRun \in {"closeLogs", "heuristic", "raise"} => AllProcessed)
    /\ [][CleanupStep]_vars

\* Both logs, each holding a line, have been closed by a Run() that has
\* assigned its result.
C29_Witness ==
    /\ pcRun = "raise"
    /\ \A h \in Handles : handleState[h] = "closed" /\ logData[h] # <<>>
    /\ returncode # None

\* The records the two readers have put on the queue: the lines read and
\* the sentinels of the readers that have ended.
RecordsPut ==
    Len(readLog[PIPE_STDOUT]) + Len(readLog[PIPE_STDERR])
    + Cardinality({s \in Streams : pcReader[s] = "done"})

\* The records the monitor has processed: the lines collected and the
\* sentinels counted.
RecordsProcessed ==
    Len(memOutput[PIPE_STDOUT]) + Len(memOutput[PIPE_STDERR]) + streamDeathCount

\* The count of unacknowledged records is that of the records put less
\* those processed, which are the ones still queued; it is zero, with the
\* queue empty, once outputQueue.join() has returned.
Acknowledged ==
    /\ unfinished >= 0
    /\ unfinished = RecordsPut - RecordsProcessed
    /\ unfinished = Len(queue)
    /\ pcRun \in {"joinStdin", "closeLogs", "heuristic", "raise"} =>
          /\ unfinished = 0
          /\ queue = <<>>
          /\ RecordsProcessed = RecordsPut
          /\ RecordsPut = wrote[PIPE_STDOUT] + wrote[PIPE_STDERR] + monitoredStreams

\* C30: the monitor acknowledges each record it takes from the queue, line
\* or sentinel, exactly once; the count of unacknowledged records is never
\* negative, and when outputQueue.join() has returned the acknowledgments
\* are as many as the records both readers put and the queue is empty.
C30_QueueAcknowledgment ==
    /\ []Acknowledged
    /\ [][(Len(queue') < Len(queue)) =>
             (queue' = Tail(queue) /\ unfinished' = unfinished - 1)]_vars

\* outputQueue.join() has returned after the monitor acknowledged lines of
\* both streams and both sentinels.
C30_Witness ==
    /\ pcRun = "closeLogs"
    /\ Len(memOutput[PIPE_STDOUT]) > 0 /\ Len(memOutput[PIPE_STDERR]) > 0
    /\ RecordsProcessed = RecordsPut
    /\ RecordsPut > monitoredStreams

\* The retained list of some stream has grown past the threshold, which is
\* what makes run() flush from its threshold test.
SomeStreamOverflowed == \E s \in Streams : Len(memOutput[s]) > maxInMemLines

\* C31: the spill file is created only by a threshold overflow: while no
\* stream's retained list has exceeded the threshold there is no spill file
\* and outputBackedByFile is False, so that a sentinel writes the remaining
\* batch only to a spill file that already exists.
C31_SpillCreatedLazily ==
    /\ backedByFile => SomeStreamOverflowed
    /\ (pcRun = "done" /\ ~SomeStreamOverflowed) => ~outputBackedByFile

\* What a step does to the retained lists and the spill file.  A step that
\* appends to the spill file is an iteration of the monitor's loop on a
\* record r: the entry appended carries the type of r and the whole retained
\* list of that stream (with r itself when r is a line, which then made the
\* list exceed the threshold by one), that list becomes empty and the list
\* of the other stream is left as it was.  A line that does not make its
\* list exceed the threshold is appended to it and nothing is written.
RetentionStep ==
    /\ bigFile' # bigFile =>
          /\ pcMonitor = "loop"
          /\ queue # <<>> /\ queue' = Tail(queue)
          /\ LET r == Head(queue)
                 batch == IF r.content = None
                          THEN collectedOutput[r.type]
                          ELSE Append(collectedOutput[r.type], r)
             IN  /\ bigFile' = Append(bigFile, [type |-> r.type,
                                                contents |-> batch])
                 /\ collectedOutput' =
                       [collectedOutput EXCEPT ![r.type] = <<>>]
                 /\ r.content # None => Len(batch) = maxInMemLines + 1
    /\ (DequeuesLine /\ Len(collectedOutput[Head(queue).type]) < maxInMemLines)
          => /\ bigFile' = bigFile
             /\ collectedOutput' =
                   [collectedOutput EXCEPT
                      ![Head(queue).type] = Append(@, Head(queue))]
    /\ collectedOutput' # collectedOutput => (queue # <<>> /\ queue' = Tail(queue))

\* C32: under every threshold T, whenever the monitor has finished with a
\* record the retained list of each stream holds at most T records, however
\* many lines the child writes; each flush writes the whole retained batch
\* of one stream and empties the list of that stream only.
C32_BoundedRetention ==
    /\ [](\A s \in Streams : Len(collectedOutput[s]) <= maxInMemLines)
    /\ [][RetentionStep]_vars

\* Under threshold 1 stdout was flushed as a batch of two lines by the
\* threshold test while the one line of stderr stays in memory.
C32_Witness ==
    /\ maxInMemLines = 1
    /\ \E i \in 1..Len(bigFile) :
          /\ bigFile[i].type = PIPE_STDOUT
          /\ Len(bigFile[i].contents) = maxInMemLines + 1
    /\ collectedOutput[PIPE_STDOUT] = <<>>
    /\ Len(collectedOutput[PIPE_STDERR]) = 1
    /\ pcMonitor = "loop"

RECURSIVE StoredRecords(_, _)
\* The records of stream s the spill file holds, in the order a sequential
\* read of the file meets them.
StoredRecords(file, s) ==
    IF file = <<>> THEN <<>>
    ELSE (IF Head(file).type = s THEN Head(file).contents ELSE <<>>)
         \o StoredRecords(Tail(file), s)

\* The records of stream s the reader put on the queue, in the order read.
RecordsRead(s) ==
    [i \in 1..Len(readLog[s]) |-> OutputLineDesc(s, readLog[s][i])]

\* C33: once the monitor thread has ended, the records of a stream are never
\* part in memory and part on disk: if a spill file exists the retained
\* lists of both streams are empty and the file holds every record of each
\* stream in the order it was read; otherwise the retained lists hold every
\* record.
C33_RetentionNotSplit ==
    pcMonitor = "done" =>
        IF backedByFile
        THEN \A s \in Streams :
                /\ collectedOutput[s] = <<>>
                /\ StoredRecords(bigFile, s) = RecordsRead(s)
                /\ Len(RecordsRead(s)) = wrote[s]
        ELSE \A s \in Streams :
                /\ bigFile = <<>>
                /\ collectedOutput[s] = RecordsRead(s)
                /\ Len(RecordsRead(s)) = wrote[s]

\* The monitor has ended after stdout overflowed threshold 1 and the last
\* line of stderr, below the threshold, was written by its sentinel.
C33_Witness ==
    /\ pcMonitor = "done"
    /\ backedByFile
    /\ maxInMemLines = 1
    /\ Len(StoredRecords(bigFile, PIPE_STDOUT)) = 2
    /\ Len(StoredRecords(bigFile, PIPE_STDERR)) = 1
    /\ \E i \in 1..Len(bigFile) :
          bigFile[i].type = PIPE_STDOUT /\ Len(bigFile[i].contents) = 2

\* The monitor thread has ended, by leaving its loop or by an exception.
MonitorEnded == pcMonitor \in {"done", "error"}

\* What every step respects of the spill file: an entry is appended only by
\* an iteration of the monitor's loop, through a handle that is not closed,
\* and never by a step of Run() or of a reader; the handle is closed only
\* by the step in which the monitor thread ends; a read of an output
\* property happens only after Run(), and if Run() created a monitor, when
\* its thread has ended and the handle is closed; the read leaves file and
\* handle as they were.
SpillAccessStep ==
    /\ bigFile' # bigFile =>
          /\ pcMonitor = "loop"
          /\ queue # <<>> /\ queue' = Tail(queue)
          /\ bigOutputFileHandle # "closed"
          /\ bigOutputFileHandle' = "open"
          /\ UNCHANGED <<pcRun, pcReader>>
    /\ (bigOutputFileHandle # "closed" /\ bigOutputFileHandle' = "closed") =>
          /\ ~MonitorEnded
          /\ MonitorEnded'
    /\ queried' # queried =>
          /\ pcRun = "done"
          /\ outputMonitor => (MonitorEnded /\ bigOutputFileHandle = "closed")
          /\ UNCHANGED <<bigFile, bigOutputFileHandle>>

\* C34: the spill file is appended to only by the monitor thread; its
\* handle is closed whenever the monitor thread has ended, by leaving the
\* loop or by an exception; a caller that reads an output property after
\* Run() has exited finds the thread ended and the handle closed, so the
\* "still open" assertion of GetOutput holds.
C34_SpillSingleWriter ==
    /\ [](MonitorEnded => bigOutputFileHandle # "open")
    /\ [](pcMonitor = "loop" => bigOutputFileHandle # "closed")
    /\ []((pcRun = "done" /\ outputMonitor) =>
             (MonitorEnded /\ backedByFile /\ bigOutputFileHandle = "closed"))
    /\ [][SpillAccessStep]_vars

\* After Run() the caller has read stdout and stderr of a run whose stdout
\* was flushed to the spill file by the threshold test and printed.
C34_Witness ==
    /\ pcRun = "done"
    /\ queried["stdout"].n > 0 /\ queried["stderr"].n > 0
    /\ bigOutputFileHandle = "closed"
    /\ pcMonitor = "done"
    /\ \E i \in 1..Len(bigFile) : Len(bigFile[i].contents) = maxInMemLines + 1
    /\ Len(console) = MaxLines

\* C35: when a read of the stdout or stderr pipe fails in a reader, Run()
\* eventually ends, by raising, rather than waiting without end for the
\* sentinel of that stream.
C35_ReadErrorSurfaces ==
    (\E s \in Streams : pcReader[s] = "error")
        ~> (pcRun = "done" /\ outcome # "returned")

\* C36: when the monitor thread dies from an exception raised while it
\* handles a record, Run() still ends: outputQueue.join() does not wait
\* without end for records that were put and never acknowledged.
C36_RunEndsAfterMonitorDeath ==
    (pcMonitor = "error") ~> (pcRun = "done")

\* The records of stream s the monitor retains, on disk and in memory.
Retained(file, collected, s) == StoredRecords(file, s) \o collected[s]

\* What a step that takes a line from the queue does when printOutput is
\* set and sys.stdout is a broken pipe: nothing is printed and the thread
\* does not end because of the print (it ends in this step only if the
\* write to a log of the line's type raises); otherwise the line is
\* appended to the log of its stream and to no other, it becomes the last
\* record retained for its stream, it is acknowledged, and the monitor
\* stays in its loop.
BrokenConsoleStep ==
    (DequeuesLine /\ Truthy(_printOutput) /\ sysStdout = EPIPE) =>
        LET lineDesc == Head(queue)
        IN  /\ console' = console
            /\ pcMonitor' = "error" => MatchingHandles(lineDesc) # {}
            /\ pcMonitor' # "error" =>
                  /\ pcMonitor' = "loop"
                  /\ \A h \in Handles :
                        logData'[h] =
                           IF h \in SinkFor(lineDesc.type)
                           THEN Append(logData[h], lineDesc.content)
                           ELSE logData[h]
                  /\ Retained(bigFile', collectedOutput', lineDesc.type)
                        = Append(Retained(bigFile, collectedOutput,
                                          lineDesc.type), lineDesc)
                  /\ unfinished' = unfinished - 1

\* C37: with printOutput set, a write to the console that fails with EPIPE
\* loses nothing: the monitor still writes the record to the log of its
\* stream, retains it, acknowledges it and goes on with the next record, so
\* that after Run() stdout, stderr and the log hold every line read,
\* whatever was printed.
C37_BrokenConsoleKeepsOutput ==
    /\ [][BrokenConsoleStep]_vars
    /\ []((pcRun = "done" /\ commandLaunched /\ Truthy(_printOutput)) =>
             /\ stdout = StripLines(readLog[PIPE_STDOUT])
             /\ stderr = StripLines(readLog[PIPE_STDERR])
             /\ Len(logData["logfile"])
                   = Len(readLog[PIPE_STDOUT]) + Len(readLog[PIPE_STDERR])
             /\ Len(console) <= Len(logData["logfile"]))

\* Run() has ended after the console broke behind the first line printed:
\* the other lines of both streams are in the log and in stdout and stderr.
C37_Witness ==
    /\ pcRun = "done"
    /\ Truthy(_printOutput)
    /\ sysStdout = EPIPE
    /\ Len(console) = 1
    /\ Len(logData["logfile"]) = MaxLines + MaxErrLines
    /\ Len(stdout) = MaxLines
    /\ Len(stderr) = MaxErrLines

\* The monitor takes a sentinel off the queue in this step.
DequeuesSentinel ==
    /\ queue # <<>>
    /\ queue' = Tail(queue)
    /\ Head(queue).content = None

\* C38: the assertion of run() holds in every state: streamDeathCount is
\* between 0 and the number of monitored streams; it changes only when the
\* monitor takes a sentinel off the queue, and then grows by exactly one.
C38_DeathCountBounded ==
    /\ [](streamDeathCount >= 0 /\ streamDeathCount <= monitoredStreams)
    /\ [][/\ DequeuesSentinel => streamDeathCount' = streamDeathCount + 1
          /\ ~DequeuesSentinel => streamDeathCount' = streamDeathCount]_vars

\* The monitor has counted the sentinels of both streams, each taken after
\* a line of its stream, and is about to leave run().
C38_Witness ==
    /\ streamDeathCount = monitoredStreams
    /\ pcMonitor = "flush"
    /\ \A s \in Streams : memOutput[s] # <<>>

\* The methods called so far on step i, in the order called.
MethodsOf(i) ==
    LET cs == SelectSeq(calls, LAMBDA c : c[1] = i)
    IN  [k \in 1..Len(cs) |-> cs[k][2]]

\* The rank of a step method in the order Preflight, Execute, Verify.
Rank(ph) ==
    CASE ph = "Preflight" -> 1
      [] ph = "Execute" -> 2
      [] ph = "Verify" -> 3
      [] OTHER -> 4

\* _PerformStep of step i is over: a later step was begun or Run has ended.
StepOver(i) ==
    StepRan(i) /\ (pcProcess = "done" \/ \E k \in 1..Len(calls) : calls[k][1] > i)

\* The order of the step methods called so far.
PhaseOrder ==
    /\ \A j, k \in 1..Len(calls) : j < k => calls[j][1] <= calls[k][1]
    /\ \A k \in 1..Len(calls) :
          /\ calls[k][2] \in {"Preflight", "Execute", "Verify"}
          /\ calls[k][2] = "Execute" => _executeSteps
          /\ calls[k][2] = "Verify" => _verifySteps
          /\ calls[k] \in failing =>
                \A j \in (k + 1)..Len(calls) : calls[j][1] # calls[k][1]
    /\ \A i \in 0..(Len(steps) - 1) :
          LET ms == MethodsOf(i)
          IN  /\ ms # <<>> => ms[1] = "Preflight"
              /\ \A j, k \in 1..Len(ms) : j < k => Rank(ms[j]) < Rank(ms[k])
              /\ (StepOver(i) /\ \A k \in 1..Len(calls) :
                                    calls[k][1] = i => calls[k] \notin failing)
                    => ms = <<"Preflight">>
                            \o (IF _executeSteps THEN <<"Execute">> ELSE <<>>)
                            \o (IF _verifySteps THEN <<"Verify">> ELSE <<>>)
              /\ (StepOver(i) /\ \E k \in 1..Len(calls) :
                                    calls[k][1] = i /\ calls[k] \in failing)
                    => MethodCall(i, ms[Len(ms)], 0) \in failing

\* C39: of each step Preflight is called first, then Execute only if
\* executeSteps is set, then Verify only if verifySteps is set, each at most
\* once and none skipped; a method that raises is the last one called on
\* its step; every call on a step comes before every call on a later step.
C39_PhaseOrdering ==
    /\ []PhaseOrder
    /\ [][Len(calls') > Len(calls) =>
             /\ calls' = Append(calls, calls'[Len(calls')])
             /\ pcProcess = "perform"
             /\ calls'[Len(calls')][1] = stepNdx]_vars

\* A process that executes and verifies and ignores errors has ended: its
\* first step ran its three methods, its second failed in Execute and was
\* left there, its third ran.
C39_Witness ==
    /\ pcProcess = "done"
    /\ _executeSteps /\ _verifySteps /\ _ignoreErrors
    /\ MethodsOf(0) = <<"Preflight", "Execute", "Verify">>
    /\ MethodsOf(1) = <<"Preflight", "Execute">>
    /\ MethodsOf(2) = <<"Preflight", "Execute", "Verify">>

====
